---- MODULE Spec2Model ----
(***************************************************************************)
(* A model of the money_tracker finance application: the ledger            *)
(* (categories and transactions with their forms and views), the period    *)
(* bucketer _iter_periods, and the reports built on them (profit-and-loss  *)
(* report and dashboard).                                                  *)
(*                                                                         *)
(* Dates are proleptic Gregorian ordinals, as datetime.date.toordinal()    *)
(* numbers them; amounts are integer pence (DecimalField with two decimal  *)
(* places); names are sequences of one-character strings.                  *)
(***************************************************************************)
EXTENDS Integers, Sequences, FiniteSets, TLC

VARIABLES categories, transactions, next_category_id, next_transaction_id,
          request, response, periods, profiles

vars == <<categories, transactions, next_category_id, next_transaction_id,
          request, response, periods, profiles>>

ledger_vars == <<categories, transactions, next_category_id, next_transaction_id>>

\* Python's None, where it is compared with strings or numbers.
None == "None"

\* Between two requests: no request is being handled, no response is out.
NoRequest == [view |-> "none"]

NoResponse == [status |-> "none"]

(***************************************************************************)
(* datetime.date                                                           *)
(***************************************************************************)

is_leap(y) == y % 4 = 0 /\ (y % 100 # 0 \/ y % 400 = 0)

days_before_year(y) ==
    (y - 1) * 365 + ((y - 1) \div 4) - ((y - 1) \div 100) + ((y - 1) \div 400)

DAYS_IN_MONTH == <<31, 28, 31, 30, 31, 30, 31, 31, 30, 31, 30, 31>>

DAYS_BEFORE_MONTH == <<0, 31, 59, 90, 120, 151, 181, 212, 243, 273, 304, 334>>

days_before_month(y, m) ==
    DAYS_BEFORE_MONTH[m] + (IF m > 2 /\ is_leap(y) THEN 1 ELSE 0)

\* date(y, m, d): the date as its ordinal (0001-01-01 is day 1).
date(y, m, d) == days_before_year(y) + days_before_month(y, m) + d

\* The (year, month, day) of an ordinal, computed as datetime._ord2ymd does.
ord2ymd(ordinal) ==
    LET n0   == ordinal - 1
        n400 == n0 \div 146097
        r400 == n0 % 146097
        n100 == r400 \div 36524
        r100 == r400 % 36524
        n4   == r100 \div 1461
        r4   == r100 % 1461
        n1   == r4 \div 365
        n    == r4 % 365
        y    == n400 * 400 + 1 + n100 * 100 + n4 * 4 + n1
        leap == n1 = 3 /\ (n4 # 24 \/ n100 = 3)
        m0   == (n + 50) \div 32
        p0   == DAYS_BEFORE_MONTH[m0] + (IF m0 > 2 /\ leap THEN 1 ELSE 0)
        m    == IF p0 > n THEN m0 - 1 ELSE m0
        p    == IF p0 > n
                THEN p0 - (DAYS_IN_MONTH[m] + (IF m = 2 /\ leap THEN 1 ELSE 0))
                ELSE p0
    IN  IF n1 = 4 \/ n100 = 4
        THEN <<y - 1, 12, 31>>
        ELSE <<y, m, n - p + 1>>

year_of(d) == ord2ymd(d)[1]

month_of(d) == ord2ymd(d)[2]

day_of(d) == ord2ymd(d)[3]

\* date.isoweekday(): Monday is 1, Sunday is 7.
isoweekday(d) == IF d % 7 = 0 THEN 7 ELSE d % 7

(***************************************************************************)
(* _iter_periods: the anchors of the x-axis                                *)
(***************************************************************************)

\* start - timedelta(days=(start.isoweekday() - 1))
WeeklyAnchorUnaligned(start) == start

WeeklyAnchor(start) == start - (isoweekday(start) - 1)

\* cur += timedelta(days=7)
NextWeekShort(cur) == cur + 6

NextWeek(cur) == cur + 7

\* start.replace(day=1)
MonthlyAnchorUnaligned(start) == start

MonthlyAnchor(start) == date(year_of(start), month_of(start), 1)

\* the first of the next month, December rolling over to January
NextMonth(cur) ==
    IF month_of(cur) = 12
    THEN date(year_of(cur) + 1, 1, 1)
    ELSE date(year_of(cur), month_of(cur) + 1, 1)

\* the loop condition of both loops: while cur <= end
LoopStrict(cur, end) == cur < end

LoopContinues(cur, end) == cur <= end

\* if start > end: start, end = end, start
SwapStartKept(start, end) == start

SwapStart(start, end) == IF start > end THEN end ELSE start

SwapEnd(start, end) == IF start > end THEN start ELSE end

RECURSIVE IterFrom(_, _, _)
IterFrom(cur, end, bucket) ==
    IF LoopContinues(cur, end)
    THEN <<cur>> \o IterFrom(IF bucket = "weekly" THEN NextWeek(cur) ELSE NextMonth(cur),
                             end, bucket)
    ELSE <<>>

\* The whole sequence a caller gets by exhausting the generator.
_iter_periods(start, end, bucket) ==
    LET s == SwapStart(start, end)
        e == SwapEnd(start, end)
    IN  IF bucket = "weekly" THEN IterFrom(WeeklyAnchor(s), e, "weekly")
        ELSE IF bucket = "monthly" THEN IterFrom(MonthlyAnchor(s), e, "monthly")
        ELSE IterFrom(WeeklyAnchor(s), e, "weekly")

\* The generator, one step at a time.  periods.start and periods.end are the
\* local variables (swapped by the first statement), arg_* the values passed.
PeriodsSpan == 45

PeriodsFirstDay == date(2025, 12, 22)

PeriodDates == { PeriodsFirstDay + i : i \in 0 .. (PeriodsSpan - 1) }

Buckets == {"weekly", "monthly", "daily"}

PeriodsIdle ==
    [pc |-> "idle", arg_start |-> 0, arg_end |-> 0, arg_bucket |-> "weekly",
     start |-> 0, end |-> 0, bucket |-> "weekly", cur |-> 0, out |-> <<>>]

IterSwap ==
    /\ periods.pc = "call"
    /\ periods' = [periods EXCEPT
                     !.start = SwapStart(periods.start, periods.end),
                     !.end   = SwapEnd(periods.start, periods.end),
                     !.pc    = "branch"]
    /\ UNCHANGED <<ledger_vars, request, response, profiles>>

IterAlignWeekly ==
    /\ periods.pc = "branch"
    /\ periods.bucket = "weekly"
    /\ periods' = [periods EXCEPT !.cur = WeeklyAnchor(periods.start),
                                  !.pc  = "weekly_loop"]
    /\ UNCHANGED <<ledger_vars, request, response, profiles>>

IterAlignMonthly ==
    /\ periods.pc = "branch"
    /\ periods.bucket = "monthly"
    /\ periods' = [periods EXCEPT !.cur = MonthlyAnchor(periods.start),
                                  !.pc  = "monthly_loop"]
    /\ UNCHANGED <<ledger_vars, request, response, profiles>>

\* yield from _iter_periods(start, end, "weekly")
IterFallback ==
    /\ periods.pc = "branch"
    /\ periods.bucket \notin {"weekly", "monthly"}
    /\ periods' = [periods EXCEPT !.bucket = "weekly", !.pc = "call"]
    /\ UNCHANGED <<ledger_vars, request, response, profiles>>

IterYieldWeekly ==
    /\ periods.pc = "weekly_loop"
    /\ LoopContinues(periods.cur, periods.end)
    /\ periods' = [periods EXCEPT !.out = Append(periods.out, periods.cur),
                                  !.cur = NextWeek(periods.cur)]
    /\ UNCHANGED <<ledger_vars, request, response, profiles>>

IterYieldMonthly ==
    /\ periods.pc = "monthly_loop"
    /\ LoopContinues(periods.cur, periods.end)
    /\ periods' = [periods EXCEPT !.out = Append(periods.out, periods.cur),
                                  !.cur = NextMonth(periods.cur)]
    /\ UNCHANGED <<ledger_vars, request, response, profiles>>

IterReturn ==
    /\ periods.pc \in {"weekly_loop", "monthly_loop"}
    /\ ~LoopContinues(periods.cur, periods.end)
    /\ periods' = [periods EXCEPT !.pc = "done"]
    /\ UNCHANGED <<ledger_vars, request, response, profiles>>

InitPeriods ==
    /\ categories = {}
    /\ transactions = {}
    /\ next_category_id = 1
    /\ next_transaction_id = 1
    /\ request = NoRequest
    /\ response = NoResponse
    /\ profiles = <<>>
    /\ \E s \in PeriodDates, e \in PeriodDates, b \in Buckets :
          periods = [pc |-> "call", arg_start |-> s, arg_end |-> e, arg_bucket |-> b,
                     start |-> s, end |-> e, bucket |-> b, cur |-> 0, out |-> <<>>]

NextPeriods ==
    \/ IterSwap
    \/ IterAlignWeekly
    \/ IterAlignMonthly
    \/ IterFallback
    \/ IterYieldWeekly
    \/ IterYieldMonthly
    \/ IterReturn

SpecPeriods == InitPeriods /\ [][NextPeriods]_vars

(***************************************************************************)
(* Text: names are sequences of characters                                 *)
(***************************************************************************)

\* The characters in code order: the space, the capitals, the small letters.
CHARS ==
    <<" ",
      "A", "B", "C", "D", "E", "F", "G", "H", "I", "J", "K", "L", "M",
      "N", "O", "P", "Q", "R", "S", "T", "U", "V", "W", "X", "Y", "Z",
      "a", "b", "c", "d", "e", "f", "g", "h", "i", "j", "k", "l", "m",
      "n", "o", "p", "q", "r", "s", "t", "u", "v", "w", "x", "y", "z">>

char_code(c) == CHOOSE i \in 1 .. Len(CHARS) : CHARS[i] = c

is_space(c) == c = " "

is_upper(c) == char_code(c) \in 2 .. 27

lower_char(c) == IF is_upper(c) THEN CHARS[char_code(c) + 26] ELSE c

\* str.lower()
lower(s) == [i \in 1 .. Len(s) |-> lower_char(s[i])]

RECURSIVE lstrip(_)
lstrip(s) == IF s # <<>> /\ is_space(Head(s)) THEN lstrip(Tail(s)) ELSE s

RECURSIVE rstrip(_)
rstrip(s) ==
    IF s # <<>> /\ is_space(s[Len(s)]) THEN rstrip(SubSeq(s, 1, Len(s) - 1)) ELSE s

\* str.strip()
strip(s) == rstrip(lstrip(s))

\* str.split(): the maximal runs of characters that are not whitespace
RECURSIVE split(_)
split(s) ==
    LET t == lstrip(s)
    IN  IF t = <<>>
        THEN <<>>
        ELSE LET k == CHOOSE n \in 1 .. Len(t) :
                         /\ \A i \in 1 .. n : ~is_space(t[i])
                         /\ n = Len(t) \/ is_space(t[n + 1])
             IN  <<SubSeq(t, 1, k)>> \o split(SubSeq(t, k + 1, Len(t)))

\* sep.join(words)
RECURSIVE join(_, _)
join(sep, words) ==
    IF words = <<>> THEN <<>>
    ELSE IF Len(words) = 1 THEN words[1]
    ELSE words[1] \o sep \o join(sep, Tail(words))

\* " ".join((name or "").strip().split())
_norm_name(name) == join(<<" ">>, split(strip(name)))

\* the lookup name__iexact=: equal without regard to case
iexact(a, b) == lower(a) = lower(b)

\* the order of ORDER BY name: by character code, a prefix first
RECURSIVE name_lt(_, _)
name_lt(a, b) ==
    IF b = <<>> THEN FALSE
    ELSE IF a = <<>> THEN TRUE
    ELSE IF Head(a) = Head(b) THEN name_lt(Tail(a), Tail(b))
    ELSE char_code(Head(a)) < char_code(Head(b))

(***************************************************************************)
(* The ledger: Category and Transaction rows                               *)
(***************************************************************************)

\* At most MaxRows rows, categories and transactions together, are inserted
\* in a run of the ledger.
MaxRows == 3

RowsInserted == (next_category_id - 1) + (next_transaction_id - 1)

Users == {"u1", "u2"}

TRANSACTION_TYPES == {"Income", "Expense"}

NAME_MAX_LENGTH == 50

MIN_AMOUNT == 1

\* Primary keys as they are posted, and what int() makes of them.
PK_STRINGS == <<"1", "2", "3", "4", "5", "6", "7", "8", "9">>

to_pk(value) == CHOOSE i \in 1 .. Len(PK_STRINGS) : PK_STRINGS[i] = value

\* A pk of 0 stands for a row not saved yet, or for no row (None).
NO_PK == 0

category_of(pk) == CHOOSE c \in categories : c.id = pk

transaction_of(pk) == CHOOSE t \in transactions : t.id = pk

\* Category.objects.filter(user=user)
categories_of_user(user) == { c \in categories : c.user = user }

\* The constraint uq_category_user_type_name, as the database checks it on
\* INSERT and UPDATE: no other row with the same user, type and name. The
\* names are compared exactly, as SQLite and PostgreSQL compare text.
uq_category_user_type_name(row) ==
    ~\E c \in categories :
        c.id # row.id /\ c.user = row.user /\ c.type = row.type /\ c.name = row.name

\* on_delete=PROTECT: the rows that block the deletion of category pk
protected_by_none(pk) == {}

protected_by(pk) == { t \in transactions : t.category_id = pk }

(***************************************************************************)
(* CategoryForm                                                            *)
(***************************************************************************)

\* Meta.fields: the order in which the form cleans its fields.
CategoryForm_fields == <<"name", "type">>

\* The model's fields that are not fields of the form.
CategoryForm_excluded == {"user"}

\* cleaned_data: the values, and the names of the fields cleaned so far
Has(cleaned_data, field) == field \in cleaned_data.fields

EmptyCategoryData == [fields |-> {}, name |-> <<>>, type |-> ""]

\* forms.CharField.clean for name: stripped, required, at most max_length
CategoryForm_name_field(value) ==
    LET v == strip(value)
    IN  [ok |-> v # <<>> /\ Len(v) <= NAME_MAX_LENGTH, value |-> v]

\* forms.TypedChoiceField.clean for type and transaction_type
type_field(value) == [ok |-> value \in TRANSACTION_TYPES, value |-> value]

\* clean_name, run with the cleaned_data of the fields cleaned so far
clean_name(user, instance_pk, cleaned_data) ==
    LET name     == _norm_name(IF Has(cleaned_data, "name")
                               THEN cleaned_data.name ELSE <<>>)
        cat_type == IF Has(cleaned_data, "type") THEN cleaned_data.type ELSE None
        qs       == { c \in categories :
                        /\ c.user = user
                        /\ c.type = cat_type
                        /\ iexact(c.name, name)
                        /\ c.id # instance_pk }
    IN  [raises |-> user # None /\ name # <<>> /\ cat_type # None /\ qs # {},
         value  |-> name]

\* BaseForm._clean_fields: each field in order, then its clean_<field> method
RECURSIVE CategoryForm_clean_fields(_, _, _, _, _)
CategoryForm_clean_fields(user, instance_pk, data, i, acc) ==
    IF i > Len(CategoryForm_fields)
    THEN acc
    ELSE
      LET f == CategoryForm_fields[i]
          step ==
            IF f = "name"
            THEN LET r  == CategoryForm_name_field(data.name)
                     cd == [acc.cleaned_data EXCEPT !.fields = @ \cup {"name"},
                                                    !.name = r.value]
                     c  == clean_name(user, instance_pk, cd)
                 IN  IF r.ok /\ ~c.raises
                     THEN [acc EXCEPT !.cleaned_data = [cd EXCEPT !.name = c.value]]
                     ELSE [acc EXCEPT !.errors = @ \cup {"name"}]
            ELSE LET r == type_field(data.type)
                 IN  IF r.ok
                     THEN [acc EXCEPT !.cleaned_data =
                                        [@ EXCEPT !.fields = @ \cup {"type"}, !.type = r.value]]
                     ELSE [acc EXCEPT !.errors = @ \cup {"type"}]
      IN  CategoryForm_clean_fields(user, instance_pk, data, i + 1, step)

\* Model.validate_constraints(exclude): the unique constraint is validated
\* only when none of its fields is excluded from the form's validation.
Category_validate_constraints(row, exclude) ==
    \/ {"user", "type", "name"} \cap exclude # {}
    \/ uq_category_user_type_name(row)

\* form.is_valid(): the fields, then the model instance built from them
CategoryForm_full_clean(user, instance, data) ==
    LET fields  == CategoryForm_clean_fields(user, instance.id, data, 1,
                       [cleaned_data |-> EmptyCategoryData, errors |-> {}])
        cd      == fields.cleaned_data
        built   == [instance EXCEPT
                      !.name = IF Has(cd, "name") THEN cd.name ELSE @,
                      !.type = IF Has(cd, "type") THEN cd.type ELSE @]
        exclude == CategoryForm_excluded \cup fields.errors
        unique  == Category_validate_constraints(built, exclude)
    IN  [valid    |-> fields.errors = {} /\ unique,
         instance |-> built]

\* CategoryForm.save: the owner is set only on a row that has none
CategoryForm_save(user, obj) ==
    IF user # None /\ obj.user = None THEN [obj EXCEPT !.user = user] ELSE obj

\* The request of a view that reads no form: a deletion, or a row not found.
NoData == [none |-> TRUE]

NewCategory == [id |-> NO_PK, user |-> None, name |-> <<>>, type |-> ""]

Respond(view, user, pk, data, status) ==
    /\ request' = [view |-> view, user |-> user, pk |-> pk, data |-> data]
    /\ response' = [status |-> status]

\* POST categories/add/
CategoryCreateView(user, data) ==
    LET form == CategoryForm_full_clean(user, NewCategory, data)
        obj  == [CategoryForm_save(user, [form.instance EXCEPT !.user = user])
                   EXCEPT !.id = next_category_id]
    IN  /\ request = NoRequest
        /\ IF ~form.valid
           THEN /\ Respond("category_create", user, NO_PK, data, "form_errors")
                /\ UNCHANGED ledger_vars
           ELSE IF ~uq_category_user_type_name(obj)
           THEN /\ Respond("category_create", user, NO_PK, data, "integrity_error")
                /\ UNCHANGED ledger_vars
           ELSE /\ categories' = categories \cup {obj}
                /\ next_category_id' = next_category_id + 1
                /\ Respond("category_create", user, NO_PK, data, "saved")
                /\ UNCHANGED <<transactions, next_transaction_id>>
        /\ UNCHANGED <<periods, profiles>>

\* POST categories/<pk>/edit/
CategoryUpdateView(user, pk, data) ==
    LET queryset == categories_of_user(user)
    IN  /\ request = NoRequest
        /\ IF ~\E c \in queryset : c.id = pk
           THEN /\ Respond("category_edit", user, pk, NoData, "not_found")
                /\ UNCHANGED ledger_vars
           ELSE LET form == CategoryForm_full_clean(user, category_of(pk), data)
                    obj  == CategoryForm_save(user, form.instance)
                IN  IF ~form.valid
                    THEN /\ Respond("category_edit", user, pk, data, "form_errors")
                         /\ UNCHANGED ledger_vars
                    ELSE IF ~uq_category_user_type_name(obj)
                    THEN /\ Respond("category_edit", user, pk, data, "integrity_error")
                         /\ UNCHANGED ledger_vars
                    ELSE /\ categories' = (categories \ {category_of(pk)}) \cup {obj}
                         /\ Respond("category_edit", user, pk, data, "saved")
                         /\ UNCHANGED <<transactions, next_category_id, next_transaction_id>>
        /\ UNCHANGED <<periods, profiles>>

\* POST categories/<pk>/delete/
CategoryDeleteView(user, pk) ==
    LET queryset == categories_of_user(user)
    IN  /\ request = NoRequest
        /\ IF ~\E c \in queryset : c.id = pk
           THEN /\ Respond("category_delete", user, pk, NoData, "not_found")
                /\ UNCHANGED ledger_vars
           ELSE IF protected_by(pk) # {}
           THEN /\ Respond("category_delete", user, pk, NoData, "protected_message")
                /\ UNCHANGED ledger_vars
           ELSE /\ categories' = categories \ {category_of(pk)}
                /\ Respond("category_delete", user, pk, NoData, "deleted")
                /\ UNCHANGED <<transactions, next_category_id, next_transaction_id>>
        /\ UNCHANGED <<periods, profiles>>

(***************************************************************************)
(* Transaction and TransactionForm                                         *)
(***************************************************************************)

NewTransaction ==
    [id |-> NO_PK, user |-> None, amount |-> 0, transaction_type |-> "",
     category_id |-> NO_PK, date |-> 0]

category_in(cats, pk) == CHOOSE c \in cats : c.id = pk

\* Transaction.clean: the category is the user's own and of the same type.
\* cats is the Category table as it stands when the check runs.
Transaction_clean(obj, cats) ==
    IF obj.category_id = NO_PK
    THEN TRUE
    ELSE LET category == category_in(cats, obj.category_id)
         IN  /\ ~(obj.user # None /\ category.user # obj.user)
             /\ ~(obj.transaction_type # "" /\ category.type # obj.transaction_type)

\* validators=[MinValueValidator(Decimal("0.01"))] of Transaction.amount, which
\* the form's amount field runs as well
MinValueValidator_none(value) == TRUE

MinValueValidator(value) == value >= MIN_AMOUNT

\* Model.clean_fields for the fields not excluded
Transaction_clean_fields(obj, exclude, cats) ==
    /\ "amount" \in exclude \/ MinValueValidator(obj.amount)
    /\ "transaction_type" \in exclude \/ obj.transaction_type \in TRANSACTION_TYPES
    /\ "category" \in exclude \/ \E c \in cats : c.id = obj.category_id
    /\ "user" \in exclude \/ obj.user \in Users

\* Model.full_clean(exclude): the fields, then clean() when the fields pass
Transaction_full_clean(obj, exclude, cats) ==
    /\ Transaction_clean_fields(obj, exclude, cats)
    /\ Transaction_clean(obj, cats)

\* TransactionForm.__init__: the categories the category field accepts
CategoryChoices_any_user(user, tx_type) ==
    IF tx_type \in {"Income", "Expense"}
    THEN { c \in categories : c.type = tx_type }
    ELSE categories

TransactionForm_queryset(user, tx_type) ==
    LET base_qs == IF user # None THEN categories_of_user(user) ELSE {}
    IN  IF tx_type \in {"Income", "Expense"}
        THEN { c \in base_qs : c.type = tx_type }
        ELSE base_qs

\* CategoryChoiceField.to_python: nothing selected, or a row of the queryset
CategoryChoiceField_to_python(value, queryset) ==
    IF value \in {"", "_other"}
    THEN [ok |-> TRUE, value |-> NO_PK]
    ELSE IF \E c \in queryset : c.id = to_pk(value)
    THEN [ok |-> TRUE, value |-> to_pk(value)]
    ELSE [ok |-> FALSE, value |-> NO_PK]

\* TransactionForm.clean: neither a category nor a new name; both of them
clean_neither(category, new_cat) == category = NO_PK /\ new_cat = <<>>

clean_both_prefers_category(category, new_cat) == FALSE

clean_both(category, new_cat) == category # NO_PK /\ new_cat # <<>>

\* The fields in Meta.fields order, TransactionForm.clean, then the model
\* instance built from cleaned_data and validated (ModelForm._post_clean).
TransactionForm_full_clean(user, instance, data) ==
    LET tx_init  == IF data.transaction_type # "" THEN data.transaction_type
                    ELSE instance.transaction_type
        queryset == TransactionForm_queryset(user, tx_init)
        amount_ok == MinValueValidator(data.amount)
        type_f   == type_field(data.transaction_type)
        cat_f    == CategoryChoiceField_to_python(data.category, queryset)
        new_f    == strip(data.new_category)
        field_errors ==
            (IF amount_ok THEN {} ELSE {"amount"})
              \cup (IF type_f.ok THEN {} ELSE {"transaction_type"})
              \cup (IF cat_f.ok THEN {} ELSE {"category"})
        \* TransactionForm.clean
        tx_type  == IF type_f.ok THEN type_f.value ELSE None
        category == IF cat_f.ok THEN cat_f.value ELSE NO_PK
        new_cat  == _norm_name(new_f)
        neither  == clean_neither(category, new_cat)
        both     == clean_both(category, new_cat)
        mismatch == /\ category # NO_PK
                    /\ tx_type # None
                    /\ category_of(category).type # tx_type
        clean_errors ==
            (IF neither THEN {"__all__"} ELSE {})
              \cup (IF ~neither /\ both THEN {"new_category"} ELSE {})
              \cup (IF ~neither /\ mismatch THEN {"category"} ELSE {})
        \* construct_instance
        built    == [instance EXCEPT
                       !.amount = IF amount_ok THEN data.amount ELSE @,
                       !.transaction_type = IF type_f.ok THEN type_f.value ELSE @,
                       !.category_id = IF cat_f.ok /\ "category" \notin clean_errors
                                       THEN cat_f.value ELSE @,
                       !.date = data.date]
        exclude  == {"user"} \cup field_errors \cup clean_errors
                      \cup (IF category = NO_PK THEN {"category"} ELSE {})
        model_ok == Transaction_full_clean(built, exclude, categories)
    IN  [valid    |-> field_errors = {} /\ clean_errors = {} /\ model_ok,
         errors   |-> field_errors \cup clean_errors
                        \cup (IF model_ok THEN {} ELSE {"__all__"}),
         instance |-> built,
         new_category |-> new_f]

\* form.is_valid(), on which the view saves the form or shows it again
TransactionForm_is_valid_always(form) == TRUE

TransactionForm_is_valid(form) == form.valid

\* TransactionForm.save, up to obj.save(): the category looked up or created.
\* The result names the row to write and the category row created, if any.
first_by_name(qs) == CHOOSE c \in qs : \A d \in qs : d = c \/ name_lt(c.name, d.name)

OnTheFlyExact(user, name, tx_type) ==
    { c \in categories : c.user = user /\ c.name = name /\ c.type = tx_type }

OnTheFlyMatches(user, name, tx_type) ==
    { c \in categories : c.user = user /\ iexact(c.name, name) /\ c.type = tx_type }

TransactionForm_save(user, form) ==
    LET obj0    == IF user # None THEN [form.instance EXCEPT !.user = user]
                   ELSE form.instance
        name    == _norm_name(form.new_category)
        tx_type == form.instance.transaction_type
        reuse   == OnTheFlyMatches(user, name, tx_type)
        created == [id |-> next_category_id, user |-> user, name |-> name, type |-> tx_type]
    IN  IF obj0.category_id # NO_PK \/ name = <<>>
        THEN [obj |-> obj0, creates |-> FALSE, created |-> created]
        ELSE IF reuse # {}
        THEN [obj |-> [obj0 EXCEPT !.category_id = first_by_name(reuse).id],
              creates |-> FALSE, created |-> created]
        ELSE [obj |-> [obj0 EXCEPT !.category_id = next_category_id],
              creates |-> TRUE, created |-> created]

\* The writes of a valid form: Category.objects.create (when there is no row
\* to reuse), then Transaction.save: full_clean() and the row written.
WriteTransaction(view, user, pk, data, form, id) ==
    LET saved == TransactionForm_save(user, form)
        obj   == [saved.obj EXCEPT !.id = id]
        cats  == IF saved.creates THEN categories \cup {saved.created} ELSE categories
        old   == { t \in transactions : t.id = id }
    IN  /\ categories' = cats
        /\ next_category_id' = IF saved.creates THEN next_category_id + 1
                               ELSE next_category_id
        /\ IF Transaction_full_clean(obj, {}, cats)
           THEN /\ transactions' = (transactions \ old) \cup {obj}
                /\ next_transaction_id' = IF old = {} THEN next_transaction_id + 1
                                          ELSE next_transaction_id
                /\ Respond(view, user, pk, data, "saved")
           ELSE /\ UNCHANGED <<transactions, next_transaction_id>>
                /\ Respond(view, user, pk, data, "validation_error")

\* Transaction.objects.filter(user=user)
transactions_of_any_user(user) == transactions

transactions_of_user(user) == { t \in transactions : t.user = user }

\* POST transactions/add/
TransactionCreateView(user, data) ==
    LET form == TransactionForm_full_clean(user, NewTransaction, data)
    IN  /\ request = NoRequest
        /\ IF ~TransactionForm_is_valid(form)
           THEN /\ Respond("transaction_create", user, NO_PK, data, "form_errors")
                /\ UNCHANGED ledger_vars
           ELSE WriteTransaction("transaction_create", user, NO_PK, data, form,
                                 next_transaction_id)
        /\ UNCHANGED <<periods, profiles>>

\* POST transactions/<pk>/edit/
TransactionUpdateView(user, pk, data) ==
    /\ request = NoRequest
    /\ IF ~\E t \in transactions_of_user(user) : t.id = pk
       THEN /\ Respond("transaction_edit", user, pk, NoData, "not_found")
            /\ UNCHANGED ledger_vars
       ELSE LET form == TransactionForm_full_clean(user, transaction_of(pk), data)
            IN  IF ~TransactionForm_is_valid(form)
                THEN /\ Respond("transaction_edit", user, pk, data, "form_errors")
                     /\ UNCHANGED ledger_vars
                ELSE WriteTransaction("transaction_edit", user, pk, data, form, pk)
    /\ UNCHANGED <<periods, profiles>>

\* POST transactions/<pk>/delete/
TransactionDeleteView(user, pk) ==
    /\ request = NoRequest
    /\ IF ~\E t \in transactions_of_user(user) : t.id = pk
       THEN /\ Respond("transaction_delete", user, pk, NoData, "not_found")
            /\ UNCHANGED ledger_vars
       ELSE /\ transactions' = transactions \ {transaction_of(pk)}
            /\ Respond("transaction_delete", user, pk, NoData, "deleted")
            /\ UNCHANGED <<categories, next_category_id, next_transaction_id>>
    /\ UNCHANGED <<periods, profiles>>

(***************************************************************************)
(* The profile of a user and the currency label                            *)
(***************************************************************************)

\* request.user of a visitor who is not logged in
AnonymousUser == "AnonymousUser"

is_authenticated(user) == user \in Users

\* UserProfile.currency, default="GBP"
DEFAULT_CURRENCY == "GBP"

CURRENCY_CHOICES ==
    {"GBP", "USD", "EUR", "NGN", "GHS", "KES", "ZAR", "INR", "CAD", "AUD", "JPY"}

_CURRENCY_SYMBOLS ==
    [GBP |-> "£", USD |-> "$", EUR |-> "€", NGN |-> "₦", GHS |-> "₵",
     KES |-> "KSh", ZAR |-> "R", INR |-> "₹", CAD |-> "$", AUD |-> "$",
     JPY |-> "¥", CNY |-> "¥"]

\* The default symbol, returned when nothing else can be.
DEFAULT_SYMBOL == "£"

\* The rows of the UserProfile table, a sequence rows, that are of the user.
profile_rows(rows, user) == { i \in DOMAIN rows : rows[i].user = user }

\* user.profile, where the user has one
profile_of(rows, user) == rows[CHOOSE i \in profile_rows(rows, user) : TRUE]

\* UserProfile.objects.get_or_create(user=user): the table afterwards
get_or_create(rows, user) ==
    IF profile_rows(rows, user) # {}
    THEN rows
    ELSE Append(rows, [user |-> user, currency |-> DEFAULT_CURRENCY])

\* create_user_profile: every user got a profile when the user was created
created_profiles == <<[user |-> "u1", currency |-> DEFAULT_CURRENCY],
                      [user |-> "u2", currency |-> DEFAULT_CURRENCY]>>

\* _CURRENCY_SYMBOLS.get(code, code)
symbol_or_default(code) ==
    IF code \in DOMAIN _CURRENCY_SYMBOLS THEN _CURRENCY_SYMBOLS[code] ELSE DEFAULT_SYMBOL

symbol_or_code(code) ==
    IF code \in DOMAIN _CURRENCY_SYMBOLS THEN _CURRENCY_SYMBOLS[code] ELSE code

\* _currency_for(user): the label returned and the UserProfile table
\* afterwards. A user with no profile, or with a profile of no currency, goes
\* through get_or_create.
_currency_for(user) ==
    IF ~is_authenticated(user)
    THEN [label |-> DEFAULT_SYMBOL, profiles |-> profiles]
    ELSE IF /\ profile_rows(profiles, user) # {}
            /\ profile_of(profiles, user).currency # ""
    THEN [label |-> symbol_or_code(profile_of(profiles, user).currency),
          profiles |-> profiles]
    ELSE LET rows == get_or_create(profiles, user)
         IN  [label |-> symbol_or_code(profile_of(rows, user).currency),
              profiles |-> rows]

\* ctx["currency"] = _currency_for(self.request.user), of a page that shows
\* money, and of a page shown to a visitor
CurrencyFor(user) ==
    /\ request = NoRequest
    /\ request' = [view |-> "currency_for", user |-> user]
    /\ response' = [status |-> "ok", currency |-> _currency_for(user).label]
    /\ profiles' = _currency_for(user).profiles
    /\ UNCHANGED <<ledger_vars, periods>>

\* POST accounts currency settings: the profile is fetched or created, and
\* takes the posted code when it is one of the choices.
currency_settings(user, code) ==
    LET rows == get_or_create(profiles, user)
        i    == CHOOSE i \in profile_rows(rows, user) : TRUE
    IN  /\ request = NoRequest
        /\ IF code \in CURRENCY_CHOICES
           THEN /\ profiles' = [rows EXCEPT ![i].currency = code]
                /\ Respond("currency_settings", user, NO_PK, [currency |-> code], "saved")
           ELSE /\ profiles' = rows
                /\ Respond("currency_settings", user, NO_PK, [currency |-> code],
                           "form_errors")
        /\ UNCHANGED <<ledger_vars, periods>>

(***************************************************************************)
(* The ledger as a state machine: any user posts any form                  *)
(***************************************************************************)

Rent == <<"R", "e", "n", "t">>

RawNames == { Rent, <<"r", "e", "n", "t", " ">>, <<" ", " ">> }

LedgerDate == date(2025, 10, 1)

CategoryPosts == [name : RawNames, type : TRANSACTION_TYPES]

PostedCategoryValues ==
    {"", "_other"} \cup { PK_STRINGS[i] : i \in 1 .. MaxRows }

\* The transaction forms posted: every combination of type, category choice
\* and typed name (none, or one that is not blank) with a valid amount, and with an amount of zero the two
\* forms that are valid but for the amount (one names a new category, one
\* selects the first category).
TransactionPosts ==
    [amount : {250},
     transaction_type : TRANSACTION_TYPES,
     category : PostedCategoryValues,
     new_category : {<<>>} \cup { n \in RawNames : strip(n) # <<>> },
     date : {LedgerDate}]
    \cup
    { [amount |-> 0, transaction_type |-> t, category |-> c[1], new_category |-> c[2],
       date |-> LedgerDate] :
        t \in TRANSACTION_TYPES, c \in { <<"", Rent>>, <<PK_STRINGS[1], <<>> >> } }

\* A view that finds no row answers before it reads the form, so one posted
\* form stands for all of them there.
PostsRead(posts, found) == IF found THEN posts ELSE { CHOOSE p \in posts : TRUE }

Init ==
    /\ categories = {}
    /\ transactions = {}
    /\ next_category_id = 1
    /\ next_transaction_id = 1
    /\ request = NoRequest
    /\ response = NoResponse
    /\ periods = PeriodsIdle
    /\ profiles = created_profiles

\* One request is handled at a time; when its response has been sent the
\* request is over and the rows stay.
EndRequest ==
    /\ request # NoRequest
    /\ request' = NoRequest
    /\ response' = NoResponse
    /\ UNCHANGED <<ledger_vars, periods, profiles>>

\* A creating request is taken while a row can still be inserted, and the rows
\* inserted stay within the bound.
RoomForRow == RowsInserted < MaxRows

WithinRows == RowsInserted <= MaxRows

Next ==
    \/ EndRequest
    \/ \E u \in Users, data \in CategoryPosts :
          RoomForRow /\ CategoryCreateView(u, data) /\ WithinRows'
    \/ \E u \in Users, pk \in 1 .. MaxRows :
          \E data \in PostsRead(CategoryPosts, \E c \in categories_of_user(u) : c.id = pk) :
              CategoryUpdateView(u, pk, data)
    \/ \E u \in Users, pk \in 1 .. MaxRows : CategoryDeleteView(u, pk)
    \/ \E u \in Users, data \in TransactionPosts :
          RoomForRow /\ TransactionCreateView(u, data) /\ WithinRows'
    \/ \E u \in Users, pk \in 1 .. MaxRows :
          \E data \in PostsRead(TransactionPosts, \E t \in transactions_of_user(u) : t.id = pk) :
              TransactionUpdateView(u, pk, data) /\ WithinRows'
    \/ \E u \in Users, pk \in 1 .. MaxRows : TransactionDeleteView(u, pk)

Spec == Init /\ [][Next]_vars

(***************************************************************************)
(* Reports: the profit-and-loss report and the dashboard                   *)
(***************************************************************************)

\* None, where a date is expected.
NO_DATE == 0

days_in_month(y, m) == IF m = 2 /\ is_leap(y) THEN 29 ELSE DAYS_IN_MONTH[m]

\* A date parameter of the query string is the numbers int() reads from its
\* parts between the dashes; <<>> is a parameter that is missing. date(y, m, d)
\* raises ValueError for a day that is not in the calendar.
_parse_yyyymmdd(s) ==
    IF /\ Len(s) = 3
       /\ s[1] \in 1 .. 9999
       /\ s[2] \in 1 .. 12
       /\ s[3] \in 1 .. days_in_month(s[1], s[2])
    THEN date(s[1], s[2], s[3])
    ELSE NO_DATE

\* a or b, for dates
or_date(a, b) == IF a # NO_DATE THEN a ELSE b

\* date.strftime("%Y-%m-%d"), as the parts a later request sends back
strftime(d) == ord2ymd(d)

\* str(n) for n >= 0, and the zero padding of :02d, %m, %d and %Y
DIGITS == <<"0", "1", "2", "3", "4", "5", "6", "7", "8", "9">>

RECURSIVE str_int(_)
str_int(n) ==
    IF n < 10 THEN <<DIGITS[n + 1]>>
    ELSE str_int(n \div 10) \o <<DIGITS[(n % 10) + 1]>>

RECURSIVE zfill(_, _)
zfill(s, width) == IF Len(s) >= width THEN s ELSE zfill(<<"0">> \o s, width)

RECURSIVE Sum_amount(_)
Sum_amount(qs) ==
    IF qs = {} THEN 0
    ELSE LET t == CHOOSE t \in qs : TRUE
         IN  t.amount + Sum_amount(qs \ {t})

\* Sum(Case(When(transaction_type=tx_type, then="amount"), default=Value(0))):
\* every row of the queryset counts, with its amount or with 0. The result is
\* a set: empty for the None that Sum gives over no rows, or the one sum.
RECURSIVE Sum_case(_, _)
Sum_case(qs, tx_type) ==
    IF qs = {} THEN 0
    ELSE LET t == CHOOSE t \in qs : TRUE
         IN  (IF t.transaction_type = tx_type THEN t.amount ELSE 0)
               + Sum_case(qs \ {t}, tx_type)

aggregate_Sum_case(qs, tx_type) == IF qs = {} THEN {} ELSE { Sum_case(qs, tx_type) }

\* total or Decimal("0.00")
or_zero(total) == IF total = {} THEN 0 ELSE CHOOSE v \in total : TRUE

\* Transaction.objects.filter(user=, date__gte=date_from, date__lte=date_to)
PlReport_qs_after_start(user, date_from, date_to) ==
    { t \in transactions : t.user = user /\ t.date > date_from /\ t.date <= date_to }

PlReport_qs(user, date_from, date_to) ==
    { t \in transactions : t.user = user /\ t.date >= date_from /\ t.date <= date_to }

\* date_to - timedelta(days=29): the report and the export
default_from_report(date_to) == date_to - 29

\* date_to - timedelta(days=89): the dashboard
default_from_dashboard_90(date_to) == date_to - 90

default_from_dashboard(date_to) == date_to - 89

\* .values("category__name"): the names of the categories of the rows
values_category__name(qs) == { category_of(t.category_id).name : t \in qs }

\* .values("category__name").annotate(total=Sum("amount")): one row for each
\* name, with the sum of the amounts of the rows whose category has that name
annotate_total(qs) ==
    { [category__name |-> n,
       total |-> Sum_amount({ t \in qs : category_of(t.category_id).name = n })] :
        n \in values_category__name(qs) }

\* .order_by("-total"): the larger total first; rows of equal totals come in
\* an order that the database chooses
order_by_total_desc(rows) ==
    { s \in [1 .. Cardinality(rows) -> rows] :
        \A i, j \in DOMAIN s : i < j => (s[i] # s[j] /\ s[i].total >= s[j].total) }

\* qs.filter(transaction_type=tx_type).values("category__name")
\*   .annotate(total=Sum("amount")).order_by("-total")
by_cat_any_type(qs, tx_type) == order_by_total_desc(annotate_total(qs))

by_cat(qs, tx_type) ==
    order_by_total_desc(annotate_total({ t \in qs : t.transaction_type = tx_type }))

\* PlReportView.get_context_data, the totals
PlReport_context(user, GET, today) ==
    LET date_to   == or_date(_parse_yyyymmdd(GET.date_to), today)
        date_from == or_date(_parse_yyyymmdd(GET.date_from), default_from_report(date_to))
        qs        == PlReport_qs(user, date_from, date_to)
        income_total  == or_zero(aggregate_Sum_case(qs, "Income"))
        expense_total == or_zero(aggregate_Sum_case(qs, "Expense"))
    IN  [status        |-> "ok",
         date_from     |-> date_from,
         date_to       |-> date_to,
         income_total  |-> income_total,
         expense_total |-> expense_total,
         net_total     |-> income_total - expense_total]

\* PlReportView.get_context_data, the breakdowns by category
PlReport_by_cat(user, GET, today) ==
    LET date_to   == or_date(_parse_yyyymmdd(GET.date_to), today)
        date_from == or_date(_parse_yyyymmdd(GET.date_from), default_from_report(date_to))
        qs        == PlReport_qs(user, date_from, date_to)
    IN  [income_by_cat : by_cat(qs, "Income"), expense_by_cat : by_cat(qs, "Expense")]

\* GET reports/pl/
PlReportView(user, GET, today) ==
    /\ request = NoRequest
    /\ request' = [view |-> "report_pl", user |-> user, GET |-> GET, today |-> today]
    /\ \E breakdowns \in PlReport_by_cat(user, GET, today) :
          response' = PlReport_context(user, GET, today) @@ breakdowns
                        @@ [currency |-> _currency_for(user).label]
    /\ profiles' = _currency_for(user).profiles
    /\ UNCHANGED <<ledger_vars, periods>>

\* ORDER BY transaction_type: "Expense" sorts before "Income"
type_rank(tx_type) == IF tx_type = "Expense" THEN 1 ELSE 2

\* .order_by("date", "transaction_type", "id")
csv_before_no_type(a, b) ==
    \/ a.date < b.date
    \/ a.date = b.date /\ a.id < b.id

csv_before(a, b) ==
    \/ a.date < b.date
    \/ a.date = b.date /\ type_rank(a.transaction_type) < type_rank(b.transaction_type)
    \/ a.date = b.date /\ a.transaction_type = b.transaction_type /\ a.id < b.id

RECURSIVE csv_order_by(_)
csv_order_by(qs) ==
    IF qs = {} THEN <<>>
    ELSE LET first == CHOOSE t \in qs : \A u \in qs \ {t} : csv_before(t, u)
         IN  <<first>> \o csv_order_by(qs \ {first})

\* f"{tx.amount:.2f}"
format_2f(amount) ==
    str_int(amount \div 100) \o <<".">> \o zfill(str_int(amount % 100), 2)

\* tx.date.strftime("%Y-%m-%d")
format_date(d) ==
    zfill(str_int(year_of(d)), 4) \o <<"-">> \o zfill(str_int(month_of(d)), 2)
      \o <<"-">> \o zfill(str_int(day_of(d)), 2)

\* Transaction.objects.filter(user=, date__gte=date_from, date__lte=date_to)
PlCsvExport_qs_before_end(user, date_from, date_to) ==
    { t \in transactions : t.user = user /\ t.date >= date_from /\ t.date < date_to }

PlCsvExport_qs(user, date_from, date_to) ==
    { t \in transactions : t.user = user /\ t.date >= date_from /\ t.date <= date_to }

\* PlCsvExportView.get: the data rows under the header. row_ids is not part
\* of the file: it keeps the row each line was written from.
PlCsvExport_response(user, GET, today) ==
    LET date_to   == or_date(_parse_yyyymmdd(GET.date_to), today)
        date_from == or_date(_parse_yyyymmdd(GET.date_from), default_from_report(date_to))
        qs        == csv_order_by(PlCsvExport_qs(user, date_from, date_to))
    IN  [status    |-> "ok",
         date_from |-> date_from,
         date_to   |-> date_to,
         header    |-> <<"Date", "Type", "Category", "Title", "Amount", "Notes">>,
         rows      |-> [i \in 1 .. Len(qs) |->
                          [Date     |-> format_date(qs[i].date),
                           Type     |-> qs[i].transaction_type,
                           Category |-> category_of(qs[i].category_id).name,
                           Amount   |-> format_2f(qs[i].amount)]],
         row_ids   |-> [i \in 1 .. Len(qs) |-> qs[i].id]]

\* GET reports/pl/export.csv
PlCsvExportView(user, GET, today) ==
    /\ request = NoRequest
    /\ request' = [view |-> "report_pl_csv", user |-> user, GET |-> GET, today |-> today]
    /\ response' = PlCsvExport_response(user, GET, today)
    /\ UNCHANGED <<ledger_vars, periods, profiles>>

\* The bucket parameter is text; _iter_periods is called with its name.
WEEKLY == <<"w", "e", "e", "k", "l", "y">>

MONTHLY == <<"m", "o", "n", "t", "h", "l", "y">>

bucket_name(b) == IF b = MONTHLY THEN "monthly" ELSE "weekly"

\* (GET.get("bucket") or "weekly").lower(), weekly unless weekly or monthly
Dashboard_bucket_else_monthly(param) ==
    LET bucket == lower(IF param # <<>> THEN param ELSE WEEKLY)
    IN  IF bucket \notin {WEEKLY, MONTHLY} THEN MONTHLY ELSE bucket

Dashboard_bucket(param) ==
    LET bucket == lower(IF param # <<>> THEN param ELSE WEEKLY)
    IN  IF bucket \notin {WEEKLY, MONTHLY} THEN WEEKLY ELSE bucket

\* _anchor_for: weekly the Monday, monthly the first of the month
_anchor_for_sunday(d, bucket) ==
    IF bucket = WEEKLY THEN d - (isoweekday(d) % 7)
    ELSE IF bucket = MONTHLY THEN date(year_of(d), month_of(d), 1)
    ELSE d

_anchor_for(d, bucket) ==
    IF bucket = WEEKLY THEN d - (isoweekday(d) - 1)
    ELSE IF bucket = MONTHLY THEN date(year_of(d), month_of(d), 1)
    ELSE d

\* Transaction.objects.filter(user=, date__gte=date_from, date__lte=date_to)
Dashboard_qs_before_end(user, date_from, date_to) ==
    { t \in transactions : t.user = user /\ t.date >= date_from /\ t.date < date_to }

Dashboard_qs_any_user(user, date_from, date_to) ==
    { t \in transactions : t.date >= date_from /\ t.date <= date_to }

Dashboard_qs(user, date_from, date_to) ==
    { t \in transactions : t.user = user /\ t.date >= date_from /\ t.date <= date_to }

\* qs.values("transaction_type").annotate(total=Sum("amount")): one row for
\* each type that has transactions
Dashboard_totals(qs) ==
    { [transaction_type |-> ty,
       total |-> Sum_amount({ t \in qs : t.transaction_type = ty })] :
        ty \in { t.transaction_type : t \in qs } }

\* sum((r["total"] for r in totals if r["transaction_type"] == tx_type), 0)
RECURSIVE sum_totals(_, _)
sum_totals(totals, tx_type) ==
    IF totals = {} THEN 0
    ELSE LET r == CHOOSE r \in totals : TRUE
         IN  (IF r.transaction_type = tx_type THEN r.total ELSE 0)
               + sum_totals(totals \ {r}, tx_type)

\* qs.values("date", "transaction_type").annotate(total=Sum("amount"))
Dashboard_rows(qs) ==
    { [date |-> k[1], transaction_type |-> k[2],
       total |-> Sum_amount({ t \in qs : t.date = k[1] /\ t.transaction_type = k[2] })] :
        k \in { <<t.date, t.transaction_type>> : t \in qs } }

\* bucket_map.get(anchor, (0, 0)) and bucket_map[anchor] = value
map_get(bucket_map, anchor) ==
    IF anchor \in DOMAIN bucket_map THEN bucket_map[anchor] ELSE <<0, 0>>

map_put(bucket_map, anchor, value) ==
    [a \in DOMAIN bucket_map \cup {anchor} |->
        IF a = anchor THEN value ELSE bucket_map[a]]

\* for r in rows (in the order of their dates): the total of the row is added
\* to the income of its anchor, or else to the expense
RECURSIVE Dashboard_bucket_map(_, _, _)
Dashboard_bucket_map(rows, bucket, bucket_map) ==
    IF rows = {} THEN bucket_map
    ELSE LET r      == CHOOSE r \in rows : \A q \in rows : r.date <= q.date
             anchor == _anchor_for(r.date, bucket)
             old    == map_get(bucket_map, anchor)
             new    == IF r.transaction_type = "Income"
                       THEN <<old[1] + r.total, old[2]>>
                       ELSE <<old[1], old[2] + r.total>>
         IN  Dashboard_bucket_map(rows \ {r}, bucket, map_put(bucket_map, anchor, new))

\* float(amount), kept to the penny: the double nearest to an amount of twelve
\* digits, and a difference of two such doubles, round to the exact pence.
float_pence(amount) == amount

\* inc - exp, the net of one period
line_net_reversed(inc, exp) == exp - inc

line_net_of(inc, exp) == inc - exp

\* datetime._isoweek1monday: the Monday of the week that holds 4 January
_isoweek1monday(year) ==
    LET firstday     == date(year, 1, 1)
        firstweekday == (firstday + 6) % 7
        week1monday  == firstday - firstweekday
    IN  IF firstweekday > 3 THEN week1monday + 7 ELSE week1monday

\* date.isocalendar(): the ISO year and the ISO week
isocalendar_of_calendar_year(d) ==
    LET year == year_of(d)
        week == (d - _isoweek1monday(year)) \div 7
    IN  IF week < 0
        THEN [year |-> year, week |-> ((d - _isoweek1monday(year - 1)) \div 7) + 1]
        ELSE IF week >= 52 /\ d >= _isoweek1monday(year + 1)
        THEN [year |-> year, week |-> 1]
        ELSE [year |-> year, week |-> week + 1]

isocalendar(d) ==
    LET year == year_of(d)
        week == (d - _isoweek1monday(year)) \div 7
    IN  IF week < 0
        THEN [year |-> year - 1, week |-> ((d - _isoweek1monday(year - 1)) \div 7) + 1]
        ELSE IF week >= 52 /\ d >= _isoweek1monday(year + 1)
        THEN [year |-> year + 1, week |-> 1]
        ELSE [year |-> year, week |-> week + 1]

\* _label_for: "YYYY-Www" for a week, "YYYY-MM" for a month
_label_for(anchor, bucket) ==
    IF bucket = "weekly"
    THEN LET iso == isocalendar(anchor)
         IN  str_int(iso.year) \o <<"-", "W">> \o zfill(str_int(iso.week), 2)
    ELSE IF bucket = "monthly"
    THEN zfill(str_int(year_of(anchor)), 4) \o <<"-">>
           \o zfill(str_int(month_of(anchor)), 2)
    ELSE zfill(str_int(year_of(anchor)), 4) \o <<"-">>
           \o zfill(str_int(month_of(anchor)), 2) \o <<"-">>
           \o zfill(str_int(day_of(anchor)), 2)

Uncategorised ==
    <<"U", "n", "c", "a", "t", "e", "g", "o", "r", "i", "s", "e", "d">>

\* row["category__name"] or "Uncategorised"
pie_label(name) == IF name = <<>> THEN Uncategorised ELSE name

\* DashboardView.get_context_data, the donut of the expenses by category
Dashboard_pie(user, GET, today) ==
    LET date_to   == or_date(_parse_yyyymmdd(GET.date_to), today)
        date_from == or_date(_parse_yyyymmdd(GET.date_from), default_from_dashboard(date_to))
        qs        == Dashboard_qs(user, date_from, date_to)
    IN  { [pie_labels |-> [i \in DOMAIN expense_by_cat |->
                             pie_label(expense_by_cat[i].category__name)],
           pie_values |-> [i \in DOMAIN expense_by_cat |->
                             float_pence(expense_by_cat[i].total)]] :
            expense_by_cat \in by_cat(qs, "Expense") }

\* DashboardView.get_context_data, the totals and the series. line_anchors is
\* not part of the context: it keeps the anchors the labels were made from.
Dashboard_context(user, GET, today) ==
    LET date_to   == or_date(_parse_yyyymmdd(GET.date_to), today)
        date_from == or_date(_parse_yyyymmdd(GET.date_from), default_from_dashboard(date_to))
        bucket    == Dashboard_bucket(GET.bucket)
        qs        == Dashboard_qs(user, date_from, date_to)
        totals    == Dashboard_totals(qs)
        income_total  == sum_totals(totals, "Income")
        expense_total == sum_totals(totals, "Expense")
        bucket_map == Dashboard_bucket_map(Dashboard_rows(qs), bucket, <<>>)
        anchors   == _iter_periods(date_from, date_to, bucket_name(bucket))
        inc(i)    == float_pence(map_get(bucket_map, anchors[i])[1])
        exp(i)    == float_pence(map_get(bucket_map, anchors[i])[2])
    IN  [status       |-> "ok",
         date_from    |-> date_from,
         date_to      |-> date_to,
         bucket       |-> bucket_name(bucket),
         kpi_income   |-> income_total,
         kpi_expense  |-> expense_total,
         kpi_net      |-> income_total - expense_total,
         line_anchors |-> anchors,
         line_labels  |-> [i \in 1 .. Len(anchors) |->
                             _label_for(anchors[i], bucket_name(bucket))],
         line_income  |-> [i \in 1 .. Len(anchors) |-> inc(i)],
         line_expense |-> [i \in 1 .. Len(anchors) |-> exp(i)],
         line_net     |-> [i \in 1 .. Len(anchors) |-> line_net_of(inc(i), exp(i))]]

\* GET dashboard/
DashboardView(user, GET, today) ==
    /\ request = NoRequest
    /\ request' = [view |-> "dashboard", user |-> user, GET |-> GET, today |-> today]
    /\ \E pie \in Dashboard_pie(user, GET, today) :
          response' = Dashboard_context(user, GET, today) @@ pie
                        @@ [currency |-> _currency_for(user).label]
    /\ profiles' = _currency_for(user).profiles
    /\ UNCHANGED <<ledger_vars, periods>>

(***************************************************************************)
(* The lists of categories and of transactions                             *)
(***************************************************************************)

\* .order_by("type", "name")
category_before(a, b) ==
    \/ type_rank(a.type) < type_rank(b.type)
    \/ a.type = b.type /\ name_lt(a.name, b.name)

RECURSIVE category_order_by(_)
category_order_by(qs) ==
    IF qs = {} THEN <<>>
    ELSE LET first == CHOOSE c \in qs : \A d \in qs \ {c} : category_before(c, d)
         IN  <<first>> \o category_order_by(qs \ {first})

\* CategoryListView.get_queryset
CategoryList_queryset(user) == category_order_by(categories_of_user(user))

\* GET categories/
CategoryListView(user) ==
    /\ request = NoRequest
    /\ request' = [view |-> "category_list", user |-> user]
    /\ response' = [status |-> "ok", categories |-> CategoryList_queryset(user)]
    /\ UNCHANGED <<ledger_vars, periods, profiles>>

\* .order_by("-date", "-id")
newest_first(a, b) == a.date > b.date \/ (a.date = b.date /\ a.id > b.id)

RECURSIVE transaction_order_by(_)
transaction_order_by(qs) ==
    IF qs = {} THEN <<>>
    ELSE LET first == CHOOSE t \in qs : \A u \in qs \ {t} : newest_first(t, u)
         IN  <<first>> \o transaction_order_by(qs \ {first})

\* GET.get("type") or "Both"
filter_type(GET) == IF GET.type # "" THEN GET.type ELSE "Both"

\* TransactionListView.get_queryset: the transactions of the user, of the
\* type, of the category and of the days asked for. A category that int()
\* does not read and a date that is not one are ignored. The search text is
\* not sent: titles and notes are not kept in the rows here.
TransactionList_queryset(user, GET) ==
    LET t_  == filter_type(GET)
        df  == _parse_yyyymmdd(GET.date_from)
        dt  == _parse_yyyymmdd(GET.date_to)
        is_int == \E i \in 1 .. Len(PK_STRINGS) : PK_STRINGS[i] = GET.category
    IN  { t \in transactions_of_user(user) :
            /\ (t_ \in {"Income", "Expense"}) => (t.transaction_type = t_)
            /\ (GET.category # "" /\ is_int) => (t.category_id = to_pk(GET.category))
            /\ (df # NO_DATE) => (t.date >= df)
            /\ (dt # NO_DATE) => (t.date <= dt) }

\* TransactionListView.get_context_data
TransactionList_context(user, GET) ==
    LET qs == TransactionList_queryset(user, GET)
        income_total  == or_zero(aggregate_Sum_case(qs, "Income"))
        expense_total == or_zero(aggregate_Sum_case(qs, "Expense"))
    IN  [status         |-> "ok",
         transactions   |-> transaction_order_by(qs),
         total_income   |-> income_total,
         total_expense  |-> expense_total,
         net            |-> income_total - expense_total,
         all_categories |-> CategoryList_queryset(user),
         filters        |-> [GET EXCEPT !.type = filter_type(GET)]]

\* GET transactions/
TransactionListView(user, GET) ==
    /\ request = NoRequest
    /\ request' = [view |-> "transaction_list", user |-> user, GET |-> GET]
    /\ response' = TransactionList_context(user, GET)
                      @@ [currency |-> _currency_for(user).label]
    /\ profiles' = _currency_for(user).profiles
    /\ UNCHANGED <<ledger_vars, periods>>

(***************************************************************************)
(* The reports as a state machine: transactions are entered, reports read  *)
(***************************************************************************)

\* At most MaxReportTransactions transactions are entered in a run of the
\* reports.
MaxReportTransactions == 3

\* The transactions entered, each under a category named on the form: of the
\* first user in and around the first half of October 2025, of the second
\* user one inside it; and two with an amount that is not positive.
ReportEntries ==
    { <<"u1", 10000, "Income",  date(2025, 10, 1)>>,
      <<"u1", 5000,  "Income",  date(2025, 10, 8)>>,
      <<"u1", 3000,  "Expense", date(2025, 10, 3)>>,
      <<"u1", 5000,  "Income",  date(2025, 10, 3)>>,
      <<"u1", 5000,  "Expense", date(2025, 9, 30)>>,
      <<"u1", 3000,  "Income",  date(2025, 10, 15)>>,
      <<"u2", 5000,  "Income",  date(2025, 10, 3)>>,
      <<"u1", 0,     "Income",  date(2025, 10, 1)>>,
      <<"u1", -2500, "Expense", date(2025, 10, 3)>> }

ReportPost(e) ==
    [amount |-> e[2], transaction_type |-> e[3], category |-> "",
     new_category |-> Rent, date |-> e[4]]

\* The day the reports are read.
Today == date(2025, 10, 15)

\* The date parameters sent: none, two days, and a day not in the calendar.
DateParams == { <<>>, <<2025, 10, 1>>, <<2025, 10, 14>>, <<2025, 2, 30>> }

\* The bucket parameters sent: none, weekly, monthly with a capital, another.
BucketParams ==
    { <<>>, WEEKLY, <<"M", "o", "n", "t", "h", "l", "y">>, <<"d", "a", "i", "l", "y">> }

PlGETs == [date_from : DateParams, date_to : DateParams]

DashboardGETs == [date_from : DateParams, date_to : DateParams, bucket : BucketParams]

NextReport ==
    \/ EndRequest
    \/ \E e \in ReportEntries :
          /\ next_transaction_id <= MaxReportTransactions
          /\ TransactionCreateView(e[1], ReportPost(e))
    \/ \E u \in Users, GET \in PlGETs : PlReportView(u, GET, Today)
    \/ \E u \in Users, GET \in PlGETs : PlCsvExportView(u, GET, Today)
    \/ \E u \in Users, GET \in DashboardGETs : DashboardView(u, GET, Today)

SpecReport == Init /\ [][NextReport]_vars

(***************************************************************************)
(* The breakdowns as a state machine: transactions are entered under       *)
(* categories, categories are edited, reports are read                     *)
(***************************************************************************)

\* At most MaxBreakdownTransactions transactions are entered in a run of the
\* breakdowns.
MaxBreakdownTransactions == 2

Food == <<"F", "o", "o", "d">>

\* The transactions entered, each under a category named on the form.
BreakdownEntries ==
    { <<"u1", 3000, "Expense", Rent, date(2025, 10, 3)>>,
      <<"u1", 5000, "Expense", Food, date(2025, 10, 3)>>,
      <<"u1", 5000, "Income",  Rent, date(2025, 10, 3)>>,
      <<"u1", 3000, "Expense", Food, date(2025, 9, 1)>>,
      <<"u2", 5000, "Expense", Rent, date(2025, 10, 3)>> }

BreakdownPost(e) ==
    [amount |-> e[2], transaction_type |-> e[3], category |-> "",
     new_category |-> e[4], date |-> e[5]]

\* The category forms posted: a name and a type.
BreakdownCategoryPosts == [name : {Rent, Food}, type : TRANSACTION_TYPES]

\* The reports are asked for with no parameter: the report over 30 days and
\* the dashboard over 90.
NoPlGET == [date_from |-> <<>>, date_to |-> <<>>]

NoDashboardGET == [date_from |-> <<>>, date_to |-> <<>>, bucket |-> <<>>]

\* The windows of the report: the last 30 days, September to the second of
\* October, and a window that ends before it starts.
BreakdownPlGETs ==
    { NoPlGET,
      [date_from |-> <<2025, 9, 1>>, date_to |-> <<2025, 10, 2>>],
      [date_from |-> <<2025, 10, 3>>, date_to |-> <<2025, 9, 1>>] }

NextBreakdown ==
    \/ EndRequest
    \/ \E e \in BreakdownEntries :
          /\ next_transaction_id <= MaxBreakdownTransactions
          /\ TransactionCreateView(e[1], BreakdownPost(e))
    \/ \E u \in Users, pk \in 1 .. MaxBreakdownTransactions :
          \E data \in PostsRead(BreakdownCategoryPosts,
                                \E c \in categories_of_user(u) : c.id = pk) :
              CategoryUpdateView(u, pk, data)
    \/ \E u \in Users, GET \in BreakdownPlGETs : PlReportView(u, GET, Today)
    \/ \E u \in Users : DashboardView(u, NoDashboardGET, Today)

SpecBreakdown == Init /\ [][NextBreakdown]_vars

(***************************************************************************)
(* The labels as a state machine: transactions are entered around the end  *)
(* of a year, dashboards of windows across it are read                     *)
(***************************************************************************)

\* At most MaxLabelTransactions transactions are entered in a run of the
\* labels.
MaxLabelTransactions == 2

LabelEntries ==
    { <<"u1", 10000, "Income",  date(2025, 12, 30)>>,
      <<"u1", 3000,  "Expense", date(2026, 1, 2)>>,
      <<"u1", 5000,  "Income",  date(2026, 12, 31)>> }

\* The date parameters sent: days around the ends of 2024, 2025 and 2026.
YearEndParams ==
    { <<2024, 12, 30>>, <<2025, 12, 29>>, <<2026, 1, 4>>, <<2026, 12, 28>>, <<2027, 1, 4>> }

LabelGETs == [date_from : YearEndParams, date_to : YearEndParams,
              bucket : {<<>>, WEEKLY, MONTHLY}]

NextLabels ==
    \/ EndRequest
    \/ \E e \in LabelEntries :
          /\ next_transaction_id <= MaxLabelTransactions
          /\ TransactionCreateView(e[1], ReportPost(e))
    \/ \E u \in Users, GET \in LabelGETs : DashboardView(u, GET, Today)

SpecLabels == Init /\ [][NextLabels]_vars

(***************************************************************************)
(* Two users side by side: both post forms, both read lists and reports    *)
(***************************************************************************)

\* At most MaxIsolationRows rows, categories and transactions together, are
\* inserted in a run of the two users.
MaxIsolationRows == 4

\* The category form posted: the name Food.
IsolationCategoryPosts == [name : {Food}, type : {"Expense"}]

IsolationTransactionPosts ==
    [amount : {250},
     transaction_type : {"Expense"},
     category : {"", PK_STRINGS[1]},
     new_category : {<<>>, Rent},
     date : {LedgerDate}]

\* The filters of the transaction list: none, and a type, the first category
\* and a first day together.
IsolationFilters ==
    { [type |-> "", category |-> "", date_from |-> <<>>, date_to |-> <<>>],
      [type |-> "Expense", category |-> PK_STRINGS[1], date_from |-> <<2025, 10, 1>>,
       date_to |-> <<>>] }

\* The reports are asked for from the first of October to today.
IsolationPlGET == [date_from |-> <<2025, 10, 1>>, date_to |-> <<>>]

IsolationDashboardGET ==
    [date_from |-> <<2025, 10, 1>>, date_to |-> <<>>, bucket |-> <<>>]

RoomForIsolationRow == RowsInserted < MaxIsolationRows

WithinIsolationRows == RowsInserted <= MaxIsolationRows

NextIsolation ==
    \/ EndRequest
    \/ \E u \in Users, pk \in 1 .. 2 :
          \E data \in PostsRead(IsolationCategoryPosts,
                                \E c \in categories_of_user(u) : c.id = pk) :
              CategoryUpdateView(u, pk, data)
    \/ \E u \in Users, pk \in 1 .. 2 : CategoryDeleteView(u, pk)
    \/ \E u \in Users, data \in IsolationTransactionPosts :
          RoomForIsolationRow /\ TransactionCreateView(u, data) /\ WithinIsolationRows'
    \/ \E u \in Users, pk \in 1 .. 2 :
          \E data \in PostsRead(IsolationTransactionPosts,
                                \E t \in transactions_of_user(u) : t.id = pk) :
              TransactionUpdateView(u, pk, data) /\ WithinIsolationRows'
    \/ \E u \in Users, pk \in 1 .. 2 : TransactionDeleteView(u, pk)
    \/ \E u \in Users : currency_settings(u, "USD")
    \/ \E u \in Users : CategoryListView(u)
    \/ \E u \in Users, GET \in IsolationFilters : TransactionListView(u, GET)
    \/ \E u \in Users : PlReportView(u, IsolationPlGET, Today)
    \/ \E u \in Users : PlCsvExportView(u, IsolationPlGET, Today)
    \/ \E u \in Users : DashboardView(u, IsolationDashboardGET, Today)

SpecIsolation == Init /\ [][NextIsolation]_vars

(***************************************************************************)
(* Requests handled at the same time: a category deletion, a transaction   *)
(* creation and a transaction edit of one user, each a sequence of reads   *)
(* and writes of the tables that the others' reads and writes interleave   *)
(***************************************************************************)

\* At most MaxRaceRows rows, categories and transactions together, are
\* inserted in a run.
MaxRaceRows == 4

RaceUser == "u1"

RaceHandlers == {"category_delete", "transaction_create", "transaction_edit"}

IdleHandler == [pc |-> "idle", pk |-> NO_PK, form |-> NoData, obj |-> NoData]

RacePosts ==
    [amount : {250},
     transaction_type : {"Expense"},
     category : {"", PK_STRINGS[1], PK_STRINGS[2]},
     new_category : {<<>>, Rent, Food},
     date : {LedgerDate}]

\* The foreign key of Transaction.category as the database keeps it: a row
\* written references a category that is there, and a category that a row
\* references is not deleted. The check is part of the write.
fk_category_unchecked(category_id) == TRUE

fk_category(category_id) == \E c \in categories : c.id = category_id

fk_referenced(pk) == \E t \in transactions : t.category_id = pk

\* The rows a handler may still insert.
RowsOfForm(h) ==
    IF request[h].pc = "save"
    THEN (IF h = "transaction_create" THEN 1 ELSE 0)
           + (IF request[h].form.new_category # <<>> THEN 1 ELSE 0)
    ELSE IF request[h].pc \in {"full_clean", "write"} /\ h = "transaction_create"
    THEN 1
    ELSE 0

RowsPending ==
    RowsOfForm("transaction_create") + RowsOfForm("transaction_edit")

RoomForRaceRows(n) == RowsInserted + RowsPending + n <= MaxRaceRows

Answer(h, status) ==
    /\ request' = [request EXCEPT ![h] = [@ EXCEPT !.pc = "done"]]
    /\ response' = [response EXCEPT ![h] = [status |-> status]]

Goto(h, pc, pk, form, obj) ==
    /\ request' = [request EXCEPT ![h] = [pc |-> pc, pk |-> pk, form |-> form, obj |-> obj]]
    /\ UNCHANGED response

\* CategoryDeleteView.post: self.object = self.get_object()
RaceDeleteGetObject(pk) ==
    LET h == "category_delete"
    IN  /\ request[h].pc = "idle"
        /\ IF ~\E c \in categories_of_user(RaceUser) : c.id = pk
           THEN Answer(h, "not_found")
           ELSE Goto(h, "collect", pk, NoData, NoData)
        /\ UNCHANGED <<ledger_vars, periods, profiles>>

\* self.object.delete(): the collector reads the rows that reference the
\* category and raises ProtectedError when there is one.
RaceDeleteCollect ==
    LET h == "category_delete"
    IN  /\ request[h].pc = "collect"
        /\ IF protected_by(request[h].pk) # {}
           THEN Answer(h, "protected_message")
           ELSE Goto(h, "delete", request[h].pk, NoData, NoData)
        /\ UNCHANGED <<ledger_vars, periods, profiles>>

\* the DELETE of the collected row; the view does not catch IntegrityError
RaceDeleteWrite ==
    LET h == "category_delete"
    IN  /\ request[h].pc = "delete"
        /\ IF fk_referenced(request[h].pk)
           THEN /\ Answer(h, "integrity_error")
                /\ UNCHANGED categories
           ELSE /\ categories' = { c \in categories : c.id # request[h].pk }
                /\ Answer(h, "deleted")
        /\ UNCHANGED <<transactions, next_category_id, next_transaction_id, periods,
                       profiles>>

\* form.is_valid() of a transaction form
RaceFormIsValid(h, pk, instance, data) ==
    LET form == TransactionForm_full_clean(RaceUser, instance, data)
    IN  IF ~form.valid
        THEN Answer(h, "form_errors")
        ELSE Goto(h, "save", pk, form, NoData)

\* POST transactions/add/
RaceCreatePost(data) ==
    LET h == "transaction_create"
    IN  /\ request[h].pc = "idle"
        /\ RoomForRaceRows(IF data.new_category # <<>> THEN 2 ELSE 1)
        /\ RaceFormIsValid(h, NO_PK, NewTransaction, data)
        /\ UNCHANGED <<ledger_vars, periods, profiles>>

\* POST transactions/<pk>/edit/
RaceEditPost(pk, data) ==
    LET h == "transaction_edit"
    IN  /\ request[h].pc = "idle"
        /\ RoomForRaceRows(IF data.new_category # <<>> THEN 1 ELSE 0)
        /\ IF ~\E t \in transactions_of_user(RaceUser) : t.id = pk
           THEN Answer(h, "not_found")
           ELSE RaceFormIsValid(h, pk, transaction_of(pk), data)
        /\ UNCHANGED <<ledger_vars, periods, profiles>>

\* TransactionForm.save up to obj.save(): the category looked up or created
RaceFormSave(h) ==
    LET saved == TransactionForm_save(RaceUser, request[h].form)
    IN  /\ request[h].pc = "save"
        /\ categories' = IF saved.creates THEN categories \cup {saved.created}
                         ELSE categories
        /\ next_category_id' = IF saved.creates THEN next_category_id + 1
                               ELSE next_category_id
        /\ Goto(h, "full_clean", request[h].pk, request[h].form, saved.obj)
        /\ UNCHANGED <<transactions, next_transaction_id, periods, profiles>>

\* Transaction.save: self.full_clean()
RaceFullClean(h) ==
    /\ request[h].pc = "full_clean"
    /\ IF Transaction_full_clean(request[h].obj, {}, categories)
       THEN Goto(h, "write", request[h].pk, request[h].form, request[h].obj)
       ELSE Answer(h, "validation_error")
    /\ UNCHANGED <<ledger_vars, periods, profiles>>

\* Transaction.save: super().save(), the INSERT or the UPDATE of the row
RaceWrite(h) ==
    LET id  == IF h = "transaction_create" THEN next_transaction_id ELSE request[h].pk
        obj == [request[h].obj EXCEPT !.id = id]
        old == { t \in transactions : t.id = id }
    IN  /\ request[h].pc = "write"
        /\ IF ~fk_category(obj.category_id)
           THEN /\ Answer(h, "integrity_error")
                /\ UNCHANGED <<transactions, next_transaction_id>>
           ELSE /\ transactions' = (transactions \ old) \cup {obj}
                /\ next_transaction_id' = IF old = {} THEN next_transaction_id + 1
                                          ELSE next_transaction_id
                /\ Answer(h, "saved")
        /\ UNCHANGED <<categories, next_category_id, periods, profiles>>

\* The response is sent and the handler takes the next request.
RaceEnd(h) ==
    /\ request[h].pc = "done"
    /\ request' = [request EXCEPT ![h] = IdleHandler]
    /\ response' = [response EXCEPT ![h] = NoResponse]
    /\ UNCHANGED <<ledger_vars, periods, profiles>>

InitRace ==
    /\ categories = {}
    /\ transactions = {}
    /\ next_category_id = 1
    /\ next_transaction_id = 1
    /\ request = [h \in RaceHandlers |-> IdleHandler]
    /\ response = [h \in RaceHandlers |-> NoResponse]
    /\ periods = PeriodsIdle
    /\ profiles = created_profiles

NextRace ==
    \/ \E pk \in 1 .. 2 : RaceDeleteGetObject(pk)
    \/ RaceDeleteCollect
    \/ RaceDeleteWrite
    \/ \E data \in RacePosts : RaceCreatePost(data)
    \/ \E pk \in 1 .. 2 :
          \E data \in PostsRead(RacePosts, \E t \in transactions_of_user(RaceUser) : t.id = pk) :
              RaceEditPost(pk, data)
    \/ \E h \in {"transaction_create", "transaction_edit"} : RaceFormSave(h)
    \/ \E h \in {"transaction_create", "transaction_edit"} : RaceFullClean(h)
    \/ \E h \in {"transaction_create", "transaction_edit"} : RaceWrite(h)
    \/ \E h \in RaceHandlers : RaceEnd(h)

SpecRace == InitRace /\ [][NextRace]_vars

(***************************************************************************)
(* The currency label as a state machine: a user has no profile or one of  *)
(* any stored code, labels are resolved and currencies are set             *)
(***************************************************************************)

\* The codes stored at the start: the default, one of a symbol of three
\* letters, one with a symbol that is not a choice, one with no symbol, none.
StoredCodes == {"GBP", "KES", "CNY", "XOF", ""}

NoProfile == "no profile"

\* The codes posted: two choices and one that is not.
PostedCodes == {"USD", "JPY", "XOF"}

profile_row(user, code) ==
    IF code = NoProfile THEN <<>> ELSE <<[user |-> user, currency |-> code]>>

InitCurrency ==
    /\ categories = {}
    /\ transactions = {}
    /\ next_category_id = 1
    /\ next_transaction_id = 1
    /\ request = NoRequest
    /\ response = NoResponse
    /\ periods = PeriodsIdle
    /\ \E a \in StoredCodes \cup {NoProfile}, b \in StoredCodes \cup {NoProfile} :
          profiles = profile_row("u1", a) \o profile_row("u2", b)

NextCurrency ==
    \/ EndRequest
    \/ \E u \in Users \cup {AnonymousUser} : CurrencyFor(u)
    \/ \E u \in Users, code \in PostedCodes : currency_settings(u, code)

SpecCurrency == InitCurrency /\ [][NextCurrency]_vars

(***************************************************************************)
(* Properties of the ledger                                                *)
(***************************************************************************)

\* The step is the handling of a request of the given view.
Handles(view) == request = NoRequest /\ request'.view = view

\* Two rows of one user and one type whose names are equal without case.
SameNameIgnoringCase(c, d) ==
    c.user = d.user /\ c.type = d.type /\ lower(c.name) = lower(d.name)

\* C3: a category form submitted for a user who already has a category of the
\* same type whose name equals the posted name, normalized, without regard to
\* case is rejected, and no second category is stored.
C3_DuplicateCreateRejected ==
    [][ ( /\ Handles("category_create")
          /\ \E c \in categories :
                /\ c.user = request'.user
                /\ c.type = request'.data.type
                /\ lower(c.name) = lower(_norm_name(request'.data.name)) )
        => ( categories' = categories /\ response'.status # "saved" ) ]_vars

\* C4: no user ever owns two categories of the same type whose names are equal
\* without regard to case.
C4_CategoryNamesUnique ==
    \A c \in categories, d \in categories :
        (c.id # d.id) => ~SameNameIgnoringCase(c, d)

\* C5: the category of every stored transaction has the transaction's type.
C5_TypeMatch ==
    \A t \in transactions :
        \E c \in categories : c.id = t.category_id /\ c.type = t.transaction_type

\* C6: the category of every stored transaction is a row of the transaction's
\* own user, and a form that selects a category of another user is refused as
\* an invalid choice, so that nothing is saved against it.
C6_OwnerMatch ==
    /\ \A t \in transactions :
          \E c \in categories : c.id = t.category_id /\ c.user = t.user
    /\ ( ( /\ request.view \in {"transaction_create", "transaction_edit"}
           /\ response.status # "not_found"
           /\ \E c \in categories :
                 /\ c.user # request.user
                 /\ request.data.category \notin {"", "_other"}
                 /\ c.id = to_pk(request.data.category) )
         => response.status = "form_errors" )

C6_Witness ==
    /\ request.view = "transaction_create"
    /\ response.status = "form_errors"
    /\ request.data.amount > 0
    /\ request.data.new_category = <<>>
    /\ \E c \in categories :
          /\ c.user # request.user
          /\ c.type = request.data.transaction_type
          /\ request.data.category = PK_STRINGS[c.id]
    /\ \E t \in transactions : t.user # request.user

\* C7: the deletion of a category that a transaction references leaves the
\* category and every transaction as they were, and the owner who asked for it
\* gets a message, not an error.
C7_ProtectedDelete ==
    [][ ( /\ Handles("category_delete")
          /\ \E c \in categories : c.id = request'.pk
          /\ \E t \in transactions : t.category_id = request'.pk )
        => ( /\ categories' = categories
             /\ transactions' = transactions
             /\ (category_of(request'.pk).user = request'.user
                   => response'.status = "protected_message") ) ]_vars

C7_Witness ==
    /\ request.view = "category_delete"
    /\ response.status = "protected_message"
    /\ \E t \in transactions : t.category_id = request.pk /\ t.user = request.user

\* C24: the owner's deletion of a category succeeds exactly when no transaction
\* references the category; and when none does (none ever did, or each one was
\* deleted or moved to another category), the deletion removes that category
\* alone and leaves every transaction as it was.
C24_DeletableWhenUnreferenced ==
    [][ ( /\ Handles("category_delete")
          /\ \E c \in categories : c.id = request'.pk /\ c.user = request'.user )
        => LET referenced == \E t \in transactions : t.category_id = request'.pk
           IN  /\ response'.status = "deleted" <=> ~referenced
               /\ ~referenced =>
                     /\ categories' = { c \in categories : c.id # request'.pk }
                     /\ transactions' = transactions ]_vars

\* A category deleted by a user whose transaction, older than the deletion,
\* references another category now.
C24_Witness ==
    /\ request.view = "category_delete"
    /\ response.status = "deleted"
    /\ ~\E c \in categories : c.id = request.pk
    /\ \E t \in transactions :
          /\ t.user = request.user
          /\ t.category_id # request.pk
          /\ \E c \in categories : c.id = t.category_id /\ c.id > request.pk

(***************************************************************************)
(* Properties of the reports                                               *)
(***************************************************************************)

RECURSIVE SumSeq(_)
SumSeq(s) == IF s = <<>> THEN 0 ELSE Head(s) + SumSeq(Tail(s))

\* The transactions of the user are the three of the scenario: income of 100
\* on 2025-10-01 and of 50 on 2025-10-08, an expense of 30 on 2025-10-03.
ScenarioLedger(user) ==
    /\ Cardinality(transactions_of_user(user)) = 3
    /\ { <<t.transaction_type, t.amount, t.date>> : t \in transactions_of_user(user) }
         = { <<"Income", 10000, date(2025, 10, 1)>>,
             <<"Income", 5000, date(2025, 10, 8)>>,
             <<"Expense", 3000, date(2025, 10, 3)>> }

\* The request asks for the window 2025-10-01 to 2025-10-14.
ScenarioWindow ==
    request.GET.date_from = <<2025, 10, 1>> /\ request.GET.date_to = <<2025, 10, 14>>

ScenarioDashboard ==
    /\ request.view = "dashboard"
    /\ ScenarioLedger(request.user)
    /\ ScenarioWindow
    /\ request.GET.bucket = WEEKLY

ScenarioPl ==
    /\ request.view = "report_pl"
    /\ ScenarioLedger(request.user)
    /\ ScenarioWindow

ScenarioPlTotals ==
    /\ response.income_total = 15000
    /\ response.expense_total = 3000
    /\ response.net_total = 12000

\* C1 as stated: for a user with the three transactions of the scenario, the
\* dashboard of the window 2025-10-01 to 2025-10-14 with bucket=weekly has
\* exactly the two anchors 2025-09-29 and 2025-10-06 with income 100 and 50,
\* expense 30 and 0, net 70 and 50, and the profit-and-loss report of the same
\* window has the totals 150, 30 and 120.
C1_Original ==
    /\ ScenarioDashboard =>
          ( /\ response.line_anchors = <<date(2025, 9, 29), date(2025, 10, 6)>>
            /\ response.line_income = <<10000, 5000>>
            /\ response.line_expense = <<3000, 0>>
            /\ response.line_net = <<7000, 5000>> )
    /\ ScenarioPl => ScenarioPlTotals

\* C1: for a user with the three transactions of the scenario, the dashboard
\* of the window 2025-10-01 to 2025-10-14 with bucket=weekly has exactly the
\* three anchors 2025-09-29, 2025-10-06 and 2025-10-13 (a Monday within the
\* window) with income 100, 50 and 0, expense 30, 0 and 0, net 70, 50 and 0,
\* and the profit-and-loss report of the same window has the totals 150, 30
\* and 120.
C1_Scenario ==
    /\ ScenarioDashboard =>
          ( /\ response.line_anchors =
                  <<date(2025, 9, 29), date(2025, 10, 6), date(2025, 10, 13)>>
            /\ response.line_income = <<10000, 5000, 0>>
            /\ response.line_expense = <<3000, 0, 0>>
            /\ response.line_net = <<7000, 5000, 0>> )
    /\ ScenarioPl => ScenarioPlTotals

C1_Witness ==
    /\ ScenarioDashboard
    /\ Len(response.line_anchors) = 3
    /\ response.line_net = <<7000, 5000, 0>>
    /\ response.kpi_net = 12000

\* C2: for every user, window and bucket, the income series of the dashboard
\* adds up to the income total of the profit-and-loss report of the same user
\* and window, and the expense series to its expense total, to the penny.
C2_SeriesSumToTotals ==
    request.view = "dashboard" =>
        LET window == [date_from |-> strftime(response.date_from),
                       date_to   |-> strftime(response.date_to)]
            pl     == PlReport_context(request.user, window, request.today)
        IN  /\ pl.date_from = response.date_from
            /\ pl.date_to = response.date_to
            /\ SumSeq(response.line_income) = pl.income_total
            /\ SumSeq(response.line_expense) = pl.expense_total

\* A weekly dashboard whose first week also holds a transaction dated before
\* the window, of a user who has another transaction dated after it.
C2_Witness ==
    /\ request.view = "dashboard"
    /\ response.bucket = "weekly"
    /\ Len(response.line_anchors) >= 2
    /\ SumSeq(response.line_income) > 0
    /\ \E t \in transactions_of_user(request.user) :
          /\ t.date < response.date_from
          /\ _anchor_for(t.date, WEEKLY) = response.line_anchors[1]
    /\ \E t \in transactions_of_user(request.user) : t.date > response.date_to

\* C27: every stored transaction has an amount of at least 0.01 (one penny),
\* whatever amounts are submitted; hence the income and expense totals, the
\* totals by category and the income and expense values of every bucket are
\* not negative.
C27_AmountsPositive ==
    /\ \A t \in transactions : t.amount >= 1
    /\ request.view = "report_pl" =>
          /\ response.income_total >= 0
          /\ response.expense_total >= 0
          /\ \A i \in DOMAIN response.income_by_cat : response.income_by_cat[i].total >= 0
          /\ \A i \in DOMAIN response.expense_by_cat : response.expense_by_cat[i].total >= 0
    /\ request.view = "dashboard" =>
          /\ response.kpi_income >= 0
          /\ response.kpi_expense >= 0
          /\ \A i \in DOMAIN response.line_income :
                response.line_income[i] >= 0 /\ response.line_expense[i] >= 0
          /\ \A i \in DOMAIN response.pie_values : response.pie_values[i] >= 0

\* A submission with a negative amount was refused while a transaction is
\* stored.
C27_Witness ==
    /\ request.view = "transaction_create"
    /\ request.data.amount < 0
    /\ response.status = "form_errors"
    /\ transactions # {}

(***************************************************************************)
(* Properties of the period bucketer                                       *)
(***************************************************************************)

Range(s) == { s[i] : i \in 1 .. Len(s) }

Min2(a, b) == IF a <= b THEN a ELSE b

Max2(a, b) == IF a <= b THEN b ELSE a

\* d is a bucket anchor: a Monday, or a first day of a month.
IsAnchor(d, bucket) ==
    IF bucket = "monthly" THEN day_of(d) = 1 ELSE isoweekday(d) = 1

\* The anchor of the bucket that contains d: the latest anchor not after d.
AnchorOfBucket(d, bucket) ==
    CHOOSE a \in (d - 31) .. d :
        IsAnchor(a, bucket) /\ \A x \in (a + 1) .. d : ~IsAnchor(x, bucket)

\* out is what weekly mode is said to yield for (start, end): from the Monday
\* on or before start, in steps of 7 days, exactly while the anchor is <= end.
WeeklyContract(out, start, end) ==
    LET monday == CHOOSE m \in (start - 6) .. start : isoweekday(m) = 1
        n      == Len(out)
        nxt    == IF n = 0 THEN monday ELSE out[n] + 7
    IN  /\ n > 0 => out[1] = monday
        /\ \A i \in 1 .. (n - 1) : out[i + 1] - out[i] = 7
        /\ \A i \in 1 .. n : out[i] <= end
        /\ nxt > end

\* b is the first day of the calendar month after the month of a.
IsFirstOfNextMonth(a, b) ==
    /\ b > a
    /\ day_of(b) = 1
    /\ \A d \in (a + 1) .. (b - 1) : day_of(d) # 1
    /\ IF month_of(a) = 12
       THEN month_of(b) = 1 /\ year_of(b) = year_of(a) + 1
       ELSE month_of(b) = month_of(a) + 1 /\ year_of(b) = year_of(a)

\* out is what monthly mode is said to yield for (start, end).
MonthlyContract(out, start, end) ==
    LET first == CHOOSE d \in (start - 30) .. start :
                    /\ day_of(d) = 1
                    /\ month_of(d) = month_of(start)
                    /\ year_of(d) = year_of(start)
        n     == Len(out)
    IN  /\ n > 0 => out[1] = first
        /\ \A i \in 1 .. (n - 1) : IsFirstOfNextMonth(out[i], out[i + 1])
        /\ \A i \in 1 .. n : out[i] <= end
        /\ IF n = 0
           THEN first > end
           ELSE \A d \in (out[n] + 1) .. end : day_of(d) # 1

PeriodsDone(bucket) == periods.pc = "done" /\ periods.arg_bucket = bucket

\* C8 as stated, for every start and end as passed: in weekly mode the first
\* anchor is the Monday on or before start, anchors step by 7 days, and the
\* sequence continues exactly while the anchor is <= end.
C8_Original ==
    PeriodsDone("weekly") =>
        WeeklyContract(periods.out, periods.arg_start, periods.arg_end)

\* C8 amended: the same, with start and end taken after the swap the function
\* makes when start > end (the earlier date as start, the later as end).
C8_WeeklyBucketing ==
    PeriodsDone("weekly") =>
        WeeklyContract(periods.out,
                       Min2(periods.arg_start, periods.arg_end),
                       Max2(periods.arg_start, periods.arg_end))

C8_Witness ==
    /\ PeriodsDone("weekly")
    /\ periods.arg_start > periods.arg_end
    /\ Len(periods.out) >= 3
    /\ periods.out[1] < periods.arg_end

\* C9 as stated, for every start and end as passed: in monthly mode the first
\* anchor is the first day of start's month, each next anchor the first day of
\* the next calendar month (December to January of the next year), and the
\* sequence continues exactly while the anchor is <= end.
C9_Original ==
    PeriodsDone("monthly") =>
        MonthlyContract(periods.out, periods.arg_start, periods.arg_end)

\* C9 amended: the same, with start and end taken after the swap the function
\* makes when start > end.
C9_MonthlyBucketing ==
    PeriodsDone("monthly") =>
        MonthlyContract(periods.out,
                        Min2(periods.arg_start, periods.arg_end),
                        Max2(periods.arg_start, periods.arg_end))

C9_Witness ==
    /\ PeriodsDone("monthly")
    /\ Len(periods.out) >= 3
    /\ month_of(periods.out[1]) = 12
    /\ month_of(periods.out[2]) = 1
    /\ year_of(periods.out[2]) = year_of(periods.out[1]) + 1

\* C10: for weekly and monthly mode and start <= end the anchor sequence is
\* finite, strictly increasing, begins at or before start, ends with the
\* anchor of the bucket containing end, and misses no anchor in between.
C10_AnchorSequence ==
    (periods.arg_bucket \in {"weekly", "monthly"} /\ periods.arg_start <= periods.arg_end) =>
        LET out == periods.out
            n   == Len(out)
            b   == periods.arg_bucket
        IN  /\ n <= periods.arg_end - periods.arg_start + 2
            /\ \A i \in 1 .. (n - 1) : out[i] < out[i + 1]
            /\ periods.pc = "done" =>
                  /\ n >= 1
                  /\ out[1] <= periods.arg_start
                  /\ out[n] = AnchorOfBucket(periods.arg_end, b)
                  /\ \A d \in out[1] .. out[n] :
                        IsAnchor(d, b) <=> d \in Range(out)

C10_Witness ==
    /\ periods.pc = "done"
    /\ periods.arg_bucket \in {"weekly", "monthly"}
    /\ periods.arg_start < periods.arg_end
    /\ Len(periods.out) >= 3
    /\ periods.out[1] < periods.arg_start
    /\ periods.out[Len(periods.out)] < periods.arg_end

\* C11: for every pair of dates a and b and every bucket mode, the anchors
\* that _iter_periods(a, b, bucket) yields are those that
\* _iter_periods(b, a, bucket) yields, in the same order.
C11_OrderIndependent ==
    periods.pc = "done" =>
        periods.out = _iter_periods(periods.arg_end, periods.arg_start, periods.arg_bucket)

C11_Witness ==
    /\ periods.pc = "done"
    /\ periods.arg_start > periods.arg_end + 7
    /\ Len(periods.out) >= 2
    /\ periods.out[1] <= periods.arg_end

\* C28: for every window with date_from <= date_to, both bucket modes and
\* every date d of the window, the anchor _anchor_for(d) under which the
\* dashboard adds a transaction of that date is one of the anchors that
\* _iter_periods(date_from, date_to, bucket) yields, so that no key of
\* bucket_map is left unread.
C28_AnchorInSequence ==
    \A bucket \in {WEEKLY, MONTHLY} :
        ( /\ PeriodsDone(bucket_name(bucket))
          /\ periods.arg_start <= periods.arg_end )
        => \A d \in periods.arg_start .. periods.arg_end :
              _anchor_for(d, bucket) \in Range(periods.out)

\* A weekly window that starts within a week and ends on a Monday: the anchor
\* of its first day is before the window, the anchor of its last day is that
\* day.
C28_Witness ==
    /\ PeriodsDone("weekly")
    /\ periods.arg_start < periods.arg_end
    /\ isoweekday(periods.arg_start) # 1
    /\ isoweekday(periods.arg_end) = 1
    /\ _anchor_for(periods.arg_start, WEEKLY) < periods.arg_start
    /\ _anchor_for(periods.arg_end, WEEKLY) = periods.out[Len(periods.out)]
    /\ Len(periods.out) >= 3

(***************************************************************************)
(* Properties of the dashboard                                             *)
(***************************************************************************)

\* The response is the dashboard of a window in which the user has no
\* transaction; a window whose first day is after its last holds no day.
EmptyWindow ==
    /\ request.view = "dashboard"
    /\ ~\E t \in transactions_of_user(request.user) :
          t.date >= response.date_from /\ t.date <= response.date_to

\* C12: when no transaction of the user falls in the window, also when the
\* window is given with date_from after date_to, the dashboard is served, its
\* three totals are zero, its series is not empty, and every bucket anchor of
\* the range appears in it with income, expense and net of zero.
C12_EmptyWindow ==
    EmptyWindow =>
        LET lo == Min2(response.date_from, response.date_to)
            hi == Max2(response.date_from, response.date_to)
            n  == Len(response.line_anchors)
        IN  /\ response.status = "ok"
            /\ response.kpi_income = 0
            /\ response.kpi_expense = 0
            /\ response.kpi_net = 0
            /\ n >= 1
            /\ Len(response.line_income) = n
            /\ Len(response.line_expense) = n
            /\ Len(response.line_net) = n
            /\ AnchorOfBucket(lo, response.bucket) \in Range(response.line_anchors)
            /\ \A d \in lo .. hi :
                  IsAnchor(d, response.bucket) => d \in Range(response.line_anchors)
            /\ \A i \in 1 .. n :
                  /\ response.line_income[i] = 0
                  /\ response.line_expense[i] = 0
                  /\ response.line_net[i] = 0

\* An empty window given backwards, of a user who has a transaction on a day
\* between its two ends, while the other user has one as well.
C12_Witness ==
    /\ EmptyWindow
    /\ response.date_from > response.date_to
    /\ Len(response.line_anchors) >= 2
    /\ \E t \in transactions_of_user(request.user) :
          t.date >= response.date_to /\ t.date <= response.date_from
    /\ \E t \in transactions : t.user # request.user

(***************************************************************************)
(* Properties of the transaction form                                      *)
(***************************************************************************)

\* The step saves a transaction form on which no existing category is
\* selected.
SavesWithTypedCategory ==
    /\ request = NoRequest
    /\ request'.view \in {"transaction_create", "transaction_edit"}
    /\ response'.status = "saved"
    /\ request'.data.category \in {"", "_other"}

\* The transaction the step saves.
SavedTransaction ==
    LET id == IF request'.view = "transaction_create"
              THEN next_transaction_id ELSE request'.pk
    IN  CHOOSE t \in transactions' : t.id = id

\* C13: when a valid transaction form with no category selected and a new name
\* typed is saved and the user already owns a category of the transaction's
\* type whose name equals the normalized name without regard to case, the
\* transaction is attached to such a category and no category is created;
\* otherwise exactly one category, of that user, normalized name and type, is
\* created and the transaction references it.
C13_OnTheFlyCategory ==
    [][ SavesWithTypedCategory =>
          LET user    == request'.user
              name    == _norm_name(request'.data.new_category)
              tx_type == request'.data.transaction_type
              owned   == { c \in categories :
                             /\ c.user = user
                             /\ c.type = tx_type
                             /\ lower(c.name) = lower(name) }
          IN  /\ name # <<>>
              /\ SavedTransaction.user = user
              /\ SavedTransaction.transaction_type = tx_type
              /\ IF owned # {}
                 THEN /\ categories' = categories
                      /\ \E c \in owned : SavedTransaction.category_id = c.id
                 ELSE \E c \in categories' :
                         /\ c \notin categories
                         /\ \A d \in categories : d.id # c.id
                         /\ categories' = categories \cup {c}
                         /\ c.user = user
                         /\ c.name = name
                         /\ c.type = tx_type
                         /\ SavedTransaction.category_id = c.id ]_vars

\* A saved form on which "rent " was typed, attached to the category "Rent"
\* that the user had, no category "rent" being there.
C13_Witness ==
    /\ request.view = "transaction_create"
    /\ response.status = "saved"
    /\ request.data.category \in {"", "_other"}
    /\ request.data.new_category = <<"r", "e", "n", "t", " ">>
    /\ \E t \in transactions, c \in categories :
          /\ t.id = next_transaction_id - 1
          /\ t.category_id = c.id
          /\ c.user = request.user
          /\ c.name = Rent
    /\ ~\E c \in categories : c.name = <<"r", "e", "n", "t">>

\* The step handles a transaction form that is read (the row to edit, if any,
\* was found).
ReadsTransactionForm ==
    /\ request = NoRequest
    /\ request'.view \in {"transaction_create", "transaction_edit"}
    /\ response'.status # "not_found"

C26_RejectedPersistsNothing ==
    [][ ( /\ request = NoRequest
          /\ request'.view \in {"transaction_create", "transaction_edit"}
          /\ response'.status # "not_found" )
        => LET data     == request'.data
               new_name == _norm_name(data.new_category)
               selected == data.category \notin {"", "_other"}
               neither  == ~selected /\ new_name = <<>>
               both     == selected /\ new_name # <<>>
               mismatch == /\ selected
                           /\ \E c \in categories :
                                 /\ c.id = to_pk(data.category)
                                 /\ c.type # data.transaction_type
               no_amount == data.amount <= 0
           IN  /\ (neither \/ both \/ mismatch \/ no_amount)
                     => response'.status = "form_errors"
               /\ response'.status # "saved"
                     => /\ transactions' = transactions
                        /\ categories' = categories
                        /\ next_category_id' = next_category_id ]_vars

\* A submission that names a new category, rejected for its amount: the
\* category it names is not stored.
C26_Witness ==
    /\ request.view = "transaction_create"
    /\ response.status = "form_errors"
    /\ request.data.amount <= 0
    /\ request.data.category = ""
    /\ request.data.new_category = Rent
    /\ categories # {}
    /\ ~\E c \in categories : c.name = Rent

\* C15: for every user and window, the totals of the dashboard (sums grouped
\* by type) are the totals of the profit-and-loss report of that window
\* (conditional sums), and in both the net is income less expense, exactly.
C15_KpisArePlTotals ==
    /\ request.view = "dashboard" =>
          LET window == [date_from |-> strftime(response.date_from),
                         date_to   |-> strftime(response.date_to)]
              pl     == PlReport_context(request.user, window, request.today)
          IN  /\ response.kpi_income = pl.income_total
              /\ response.kpi_expense = pl.expense_total
              /\ response.kpi_net = pl.net_total
              /\ response.kpi_net = response.kpi_income - response.kpi_expense
    /\ request.view = "report_pl" =>
          response.net_total = response.income_total - response.expense_total

\* A dashboard with income in the window and more expense than income.
C15_Witness ==
    /\ request.view = "dashboard"
    /\ response.kpi_income > 0
    /\ response.kpi_net < 0
    /\ request.GET.date_from # <<>>

\* The number a string of digits writes.
digit_value(c) == (CHOOSE i \in 1 .. Len(DIGITS) : DIGITS[i] = c) - 1

RECURSIVE int_of(_)
int_of(s) ==
    IF s = <<>> THEN 0
    ELSE int_of(SubSeq(s, 1, Len(s) - 1)) * 10 + digit_value(s[Len(s)])

\* The year and the week or month that a label names, and their order in time.
LabelKey(label) ==
    <<int_of(SubSeq(label, 1, 4)), int_of(SubSeq(label, Len(label) - 1, Len(label)))>>

KeyBefore(a, b) == a[1] < b[1] \/ (a[1] = b[1] /\ a[2] < b[2])

\* The bucket anchors of a window: the anchor of the bucket of its first day
\* and every anchor among its days.
AnchorsOfWindow(lo, hi, bucket) ==
    {AnchorOfBucket(lo, bucket)} \cup { d \in lo .. hi : IsAnchor(d, bucket) }

\* C16: in every dashboard the labels and the income, expense and net series
\* have one entry for each bucket anchor of the window, in the order of time,
\* and each net entry is the income entry less the expense entry.
C16_AlignedSeries ==
    request.view = "dashboard" =>
        LET lo == Min2(response.date_from, response.date_to)
            hi == Max2(response.date_from, response.date_to)
            window == AnchorsOfWindow(lo, hi, response.bucket)
            n  == Cardinality(window)
        IN  /\ Len(response.line_labels) = n
            /\ Len(response.line_income) = n
            /\ Len(response.line_expense) = n
            /\ Len(response.line_net) = n
            /\ Range(response.line_anchors) = window
            /\ \A i \in 1 .. (n - 1) :
                  /\ response.line_anchors[i] < response.line_anchors[i + 1]
                  /\ KeyBefore(LabelKey(response.line_labels[i]),
                               LabelKey(response.line_labels[i + 1]))
            /\ \A i \in 1 .. n :
                  response.line_net[i] = response.line_income[i] - response.line_expense[i]

\* A dashboard of at least three periods, one with more expense than income
\* and a later one with income.
C16_Witness ==
    /\ request.view = "dashboard"
    /\ Len(response.line_labels) >= 3
    /\ \E i, j \in 1 .. Len(response.line_net) :
          /\ i < j
          /\ response.line_expense[i] > 0
          /\ response.line_net[i] < 0
          /\ response.line_net[j] > 0

(***************************************************************************)
(* Properties of the window and of the export                              *)
(***************************************************************************)

\* The parameter writes a day of the calendar: the day it names, turned back
\* into year, month and day, gives the same three numbers.
IsCalendarDate(p) ==
    /\ Len(p) = 3
    /\ p[2] \in 1 .. 12
    /\ ord2ymd(date(p[1], p[2], p[3])) = p

\* The transactions of the user dated from the first to the last day.
InWindow(user, first, last) ==
    { t \in transactions_of_user(user) : t.date \in first .. last }

\* C17: in the report, the export and the dashboard a date_to that is absent
\* or is no date is replaced by today, and a date_from that is absent or is no
\* date by date_to less 29 days (report and export) or less 89 days
\* (dashboard); the request is served all the same, and the transactions
\* dated on date_from or on date_to count as inside the window.
C17_WindowSelection ==
    request.view \in {"report_pl", "report_pl_csv", "dashboard"} =>
        LET to_p   == request.GET.date_to
            from_p == request.GET.date_from
            date_to   == IF IsCalendarDate(to_p) THEN date(to_p[1], to_p[2], to_p[3])
                         ELSE request.today
            back      == IF request.view = "dashboard" THEN 89 ELSE 29
            date_from == IF IsCalendarDate(from_p)
                         THEN date(from_p[1], from_p[2], from_p[3])
                         ELSE date_to - back
            inside    == InWindow(request.user, date_from, date_to)
            income    == Sum_amount({ t \in inside : t.transaction_type = "Income" })
            expense   == Sum_amount({ t \in inside : t.transaction_type = "Expense" })
        IN  /\ response.status = "ok"
            /\ response.date_to = date_to
            /\ response.date_from = date_from
            /\ request.view = "report_pl" =>
                  response.income_total = income /\ response.expense_total = expense
            /\ request.view = "dashboard" =>
                  response.kpi_income = income /\ response.kpi_expense = expense
            /\ request.view = "report_pl_csv" =>
                  Range(response.row_ids) = { t.id : t \in inside }

\* A dashboard asked with a date_to that is no date and no date_from, of a
\* user who has a transaction dated today, the last day of the window.
C17_Witness ==
    /\ request.view = "dashboard"
    /\ request.GET.date_to = <<2025, 2, 30>>
    /\ request.GET.date_from = <<>>
    /\ response.date_to = request.today
    /\ response.date_from = request.today - 89
    /\ response.kpi_income > 0
    /\ \E t \in transactions_of_user(request.user) : t.date = response.date_to

\* The year, month and day that a date of the export writes.
DateWritten(s) ==
    <<int_of(SubSeq(s, 1, 4)), int_of(SubSeq(s, 6, 7)), int_of(SubSeq(s, 9, 10))>>

\* Row a of the export comes before row b: by date, then by type (Expense
\* before Income, as text sorts), then by identity.
RowBefore(a, a_id, b, b_id) ==
    LET da == DateWritten(a.Date)
        db == DateWritten(b.Date)
    IN  \/ da[1] < db[1]
        \/ da[1] = db[1] /\ da[2] < db[2]
        \/ da[1] = db[1] /\ da[2] = db[2] /\ da[3] < db[3]
        \/ da = db /\ a.Type = "Expense" /\ b.Type = "Income"
        \/ da = db /\ a.Type = b.Type /\ a_id < b_id

\* C18: the export has exactly one data row for each transaction of the user
\* dated inside the window, three for the scenario, and the rows are in the
\* order of date, then type, then identity.
C18_CsvRows ==
    request.view = "report_pl_csv" =>
        LET inside == InWindow(request.user, response.date_from, response.date_to)
            n      == Len(response.rows)
        IN  /\ n = Cardinality(inside)
            /\ Len(response.row_ids) = n
            /\ \A t \in inside :
                  \E i \in 1 .. n :
                      /\ response.row_ids[i] = t.id
                      /\ DateWritten(response.rows[i].Date) = ord2ymd(t.date)
                      /\ response.rows[i].Type = t.transaction_type
            /\ \A i \in 1 .. n, j \in 1 .. n :
                  i < j => RowBefore(response.rows[i], response.row_ids[i],
                                     response.rows[j], response.row_ids[j])
            /\ (ScenarioLedger(request.user) /\ ScenarioWindow) => n = 3

\* An export of two rows of one day, of which the expense, entered after the
\* income, is written first, while another user has a transaction of a day
\* inside the window.
C18_Witness ==
    /\ request.view = "report_pl_csv"
    /\ Len(response.rows) = 2
    /\ response.rows[1].Date = response.rows[2].Date
    /\ response.rows[1].Type = "Expense"
    /\ response.rows[2].Type = "Income"
    /\ response.row_ids[1] > response.row_ids[2]
    /\ \E t \in transactions :
          /\ t.user # request.user
          /\ response.date_from <= t.date
          /\ t.date <= response.date_to

\* The pence that an Amount cell names: the digits before and after the point.
AmountWritten(cell) ==
    int_of(SubSeq(cell, 1, Len(cell) - 3)) * 100
      + int_of(SubSeq(cell, Len(cell) - 1, Len(cell)))

\* The sum of the Amount column over the rows of one Type.
RECURSIVE SumOfType(_, _)
SumOfType(rows, tx_type) ==
    IF rows = <<>> THEN 0
    ELSE (IF Head(rows).Type = tx_type THEN AmountWritten(Head(rows).Amount) ELSE 0)
           + SumOfType(Tail(rows), tx_type)

\* C30: for every user and the same date_from and date_to parameters, the
\* Amount column of the CSV export adds up, over the rows of Type Income, to
\* the income_total of the P&L report, and over the rows of Type Expense to
\* its expense_total; every Amount cell is written with a point and two
\* decimals.
C30_CsvAgreesWithReport ==
    /\ request.view = "report_pl_csv" =>
          LET pl == PlReport_context(request.user, request.GET, request.today)
          IN  /\ \A i \in DOMAIN response.rows :
                    LET cell == response.rows[i].Amount
                    IN  /\ Len(cell) >= 4
                        /\ cell[Len(cell) - 2] = "."
                        /\ \A k \in (DOMAIN cell) \ {Len(cell) - 2} : cell[k] \in Range(DIGITS)
              /\ SumOfType(response.rows, "Income") = pl.income_total
              /\ SumOfType(response.rows, "Expense") = pl.expense_total
    /\ request.view = "report_pl" =>
          LET csv == PlCsvExport_response(request.user, request.GET, request.today)
          IN  /\ SumOfType(csv.rows, "Income") = response.income_total
              /\ SumOfType(csv.rows, "Expense") = response.expense_total

\* An export for a window given by its first day, with an income and an
\* expense in it, of a user who has a transaction before the window.
C30_Witness ==
    /\ request.view = "report_pl_csv"
    /\ request.GET.date_from = <<2025, 10, 1>>
    /\ SumOfType(response.rows, "Income") > 0
    /\ SumOfType(response.rows, "Expense") > 0
    /\ \E t \in transactions_of_user(request.user) : t.date < response.date_from

(***************************************************************************)
(* Properties of the breakdowns by category                                *)
(***************************************************************************)

\* The categories of the rows.
CategoriesOf(rows) == { t.category_id : t \in rows }

\* The sequence has one entry for each category of the rows, which carries
\* the name of the category and the sum of the amounts of its rows, and the
\* entries go from the largest total down.
BreakdownByCategory(names, totals, rows) ==
    /\ Len(names) = Cardinality(CategoriesOf(rows))
    /\ Len(totals) = Len(names)
    /\ \E at \in [CategoriesOf(rows) -> 1 .. Len(names)] :
          /\ \A c, d \in CategoriesOf(rows) : c # d => at[c] # at[d]
          /\ \A c \in CategoriesOf(rows) :
                /\ names[at[c]] = category_of(c).name
                /\ totals[at[c]] = Sum_amount({ t \in rows : t.category_id = c })
    /\ \A i, j \in 1 .. Len(totals) : i < j => totals[i] >= totals[j]

\* The same, with one entry for each name that a category of the rows has.
BreakdownByName(names, totals, rows) ==
    LET NamesOf == { category_of(c).name : c \in CategoriesOf(rows) }
    IN  /\ Len(names) = Cardinality(NamesOf)
        /\ Len(totals) = Len(names)
        /\ Range(names) = NamesOf
        /\ \A i \in 1 .. Len(names) :
              totals[i] = Sum_amount({ t \in rows : category_of(t.category_id).name = names[i] })
        /\ \A i, j \in 1 .. Len(totals) : i < j => totals[i] >= totals[j]

\* The breakdowns of the response, each as the names, the totals and the
\* rows it is made from.
BreakdownsRead ==
    LET inside == InWindow(request.user, response.date_from, response.date_to)
        of(ty) == { t \in inside : t.transaction_type = ty }
    IN  IF request.view = "report_pl"
        THEN { <<[i \in DOMAIN response.income_by_cat |->
                      response.income_by_cat[i].category__name],
                 [i \in DOMAIN response.income_by_cat |->
                      response.income_by_cat[i].total],
                 of("Income")>>,
               <<[i \in DOMAIN response.expense_by_cat |->
                      response.expense_by_cat[i].category__name],
                 [i \in DOMAIN response.expense_by_cat |->
                      response.expense_by_cat[i].total],
                 of("Expense")>> }
        ELSE IF request.view = "dashboard"
        THEN { <<response.pie_labels, response.pie_values, of("Expense")>> }
        ELSE {}

\* C19: each breakdown of the report and the expense breakdown of the
\* dashboard has one entry for each category with a transaction of that type
\* inside the window, the total of the entry is the sum of the amounts of
\* those transactions, and the entries go from the largest total down.
C19_CategoryBreakdown ==
    \A b \in BreakdownsRead : BreakdownByCategory(b[1], b[2], b[3])

\* What the breakdowns do give: one entry for each category name.
BreakdownIsByName ==
    \A b \in BreakdownsRead : BreakdownByName(b[1], b[2], b[3])

Totals(by_cat_rows) == [i \in DOMAIN by_cat_rows |-> by_cat_rows[i].total]

\* C29: in every P&L report, of any user and window, the totals of the
\* income-by-category breakdown add up to income_total and the totals of the
\* expense-by-category breakdown add up to expense_total.
C29_BreakdownSumsMatchTotals ==
    request.view = "report_pl" =>
        /\ SumSeq(Totals(response.income_by_cat)) = response.income_total
        /\ SumSeq(Totals(response.expense_by_cat)) = response.expense_total

\* A report whose expense breakdown has two categories with different totals.
C29_Witness ==
    /\ request.view = "report_pl"
    /\ Len(response.expense_by_cat) = 2
    /\ response.expense_by_cat[1].total > response.expense_by_cat[2].total
    /\ response.expense_total = 8000

(***************************************************************************)
(* Properties of the currency label                                        *)
(***************************************************************************)

\* C20: resolving the currency label always answers with a label: the default
\* symbol for a visitor; for a user with a profile the symbol of the stored
\* code, or the code itself when it has no symbol, and no profile is created;
\* for a user with no profile a profile of the default currency is created
\* and its symbol is the label; and no user ever has two profiles.
C20_CurrencyLabel ==
    [][ Handles("currency_for") =>
          LET user == request'.user
              mine == profile_rows(profiles, user)
          IN  /\ response'.status = "ok"
              /\ (user \notin Users) =>
                    (response'.currency = "£" /\ profiles' = profiles)
              /\ (user \in Users /\ mine = {}) =>
                    /\ profiles' = Append(profiles, [user |-> user, currency |-> "GBP"])
                    /\ response'.currency = "£"
              /\ (user \in Users /\ mine # {}) =>
                    /\ profiles' = profiles
                    /\ \A i \in mine :
                          response'.currency =
                              IF profiles[i].currency \in DOMAIN _CURRENCY_SYMBOLS
                              THEN _CURRENCY_SYMBOLS[profiles[i].currency]
                              ELSE profiles[i].currency
              /\ \A u \in Users : Cardinality(profile_rows(profiles', u)) <= 1 ]_vars

\* The label of the first user has been resolved and is the default symbol,
\* and the profile of the first user was created after that of the second,
\* whose stored code has no symbol.
C20_Witness ==
    /\ request.view = "currency_for"
    /\ request.user = "u1"
    /\ response.currency = "£"
    /\ profiles = <<[user |-> "u2", currency |-> "XOF"],
                    [user |-> "u1", currency |-> "GBP"]>>

(***************************************************************************)
(* Properties of the bucket mode and of the labels                         *)
(***************************************************************************)

\* Bucket values that are neither weekly nor monthly.
UnknownBuckets == {"daily", "", "Weekly", "yearly"}

\* The bucket parameter of the request is missing, or is not weekly or
\* monthly in any case of letters.
BucketMissingOrInvalid ==
    /\ request.view = "dashboard"
    /\ lower(request.GET.bucket) \notin {WEEKLY, MONTHLY}

\* C21: _iter_periods with a bucket other than weekly or monthly yields the
\* weekly anchors of its start and end, and a dashboard asked for with a
\* missing or invalid bucket parameter answers with the labels and the series
\* of the dashboard asked for with bucket=weekly.
C21_UnknownBucketIsWeekly ==
    BucketMissingOrInvalid =>
        LET weekly == Dashboard_context(request.user,
                                        [request.GET EXCEPT !.bucket = WEEKLY],
                                        request.today)
        IN  /\ response.bucket = "weekly"
            /\ response.line_labels = weekly.line_labels
            /\ response.line_income = weekly.line_income
            /\ response.line_expense = weekly.line_expense
            /\ response.line_net = weekly.line_net
            /\ \A b \in UnknownBuckets :
                  LET out == _iter_periods(response.date_from, response.date_to, b)
                  IN  /\ out = _iter_periods(response.date_from, response.date_to, "weekly")
                      /\ WeeklyContract(out,
                                        Min2(response.date_from, response.date_to),
                                        Max2(response.date_from, response.date_to))

\* A dashboard asked for with bucket=daily, of more than one week, with an
\* income in one week and an expense in one.
C21_Witness ==
    /\ request.view = "dashboard"
    /\ request.GET.bucket = <<"d", "a", "i", "l", "y">>
    /\ Len(response.line_labels) >= 2
    /\ \E i \in DOMAIN response.line_income : response.line_income[i] > 0
    /\ \E i \in DOMAIN response.line_expense : response.line_expense[i] > 0

\* Every character of s is a digit.
AllDigits(s) == \A i \in 1 .. Len(s) : \E k \in 1 .. Len(DIGITS) : s[i] = DIGITS[k]

\* The Thursday of the week of d: its year is the ISO year of the week, and
\* the ISO week number counts the Thursdays of that year up to it.
ThursdayOf(d) == d - isoweekday(d) + 4

IsoYear(d) == year_of(ThursdayOf(d))

IsoWeek(d) == ((ThursdayOf(d) - date(IsoYear(d), 1, 1)) \div 7) + 1

\* label is the ISO year, a dash, W and the ISO week in two digits.
IsWeekLabel(label, anchor) ==
    /\ Len(label) = 8
    /\ label[5] = "-"
    /\ label[6] = "W"
    /\ AllDigits(SubSeq(label, 1, 4))
    /\ AllDigits(SubSeq(label, 7, 8))
    /\ int_of(SubSeq(label, 1, 4)) = IsoYear(anchor)
    /\ int_of(SubSeq(label, 7, 8)) = IsoWeek(anchor)

\* label is the year, a dash and the month in two digits.
IsMonthLabel(label, anchor) ==
    /\ Len(label) = 7
    /\ label[5] = "-"
    /\ AllDigits(SubSeq(label, 1, 4))
    /\ AllDigits(SubSeq(label, 6, 7))
    /\ int_of(SubSeq(label, 1, 4)) = year_of(anchor)
    /\ int_of(SubSeq(label, 6, 7)) = month_of(anchor)

\* C22: the label of a weekly anchor is its ISO year, a dash, W and its ISO
\* week in two digits, the label of a monthly anchor is its year, a dash and
\* its month in two digits; the labels of one dashboard are pairwise distinct
\* and in the order of time.
C22_AnchorLabels ==
    request.view = "dashboard" =>
        LET labels  == response.line_labels
            anchors == response.line_anchors
        IN  /\ Len(labels) = Len(anchors)
            /\ \A i \in 1 .. Len(labels) :
                  IF response.bucket = "weekly"
                  THEN IsWeekLabel(labels[i], anchors[i])
                  ELSE IsMonthLabel(labels[i], anchors[i])
            /\ \A i, j \in 1 .. Len(labels) :
                  i < j => /\ labels[i] # labels[j]
                           /\ KeyBefore(LabelKey(labels[i]), LabelKey(labels[j]))

\* A weekly dashboard with income, in which the Monday of one week is of the
\* year before the ISO year of its label, and one week is week 53.
C22_Witness ==
    /\ request.view = "dashboard"
    /\ response.bucket = "weekly"
    /\ response.kpi_income > 0
    /\ \E i \in 1 .. Len(response.line_labels) :
          /\ year_of(response.line_anchors[i]) + 1
                = int_of(SubSeq(response.line_labels[i], 1, 4))
          /\ response.line_income[i] > 0
    /\ \E i \in 1 .. Len(response.line_labels) :
          int_of(SubSeq(response.line_labels[i], 7, 8)) = 53

(***************************************************************************)
(* Properties of the two users                                             *)
(***************************************************************************)

\* The rows of a user.
RowsOf(user) ==
    [categories   |-> categories_of_user(user),
     transactions |-> { t \in transactions : t.user = user },
     profile      |-> { profiles[i] : i \in profile_rows(profiles, user) }]

\* The request asks to edit or to delete a row by its key.
TargetsRow(req) ==
    req.view \in {"category_edit", "category_delete", "transaction_edit", "transaction_delete"}

\* The row that the request targets is of another user.
TargetsRowOfOther(req) ==
    /\ TargetsRow(req)
    /\ IF req.view \in {"category_edit", "category_delete"}
       THEN \E c \in categories : c.id = req.pk /\ c.user # req.user
       ELSE \E t \in transactions : t.id = req.pk /\ t.user # req.user

\* The category of key pk among the rows of a user.
OwnCategory(rows, pk) == CHOOSE c \in rows.categories : c.id = pk

\* The transactions among the rows of a user dated from lo to hi.
OwnInWindow(rows, lo, hi) == { t \in rows.transactions : lo <= t.date /\ t.date <= hi }

OwnOfType(txs, ty) == { t \in txs : t.transaction_type = ty }

\* names and totals are a breakdown of txs by the names of the categories
\* among the rows of a user.
OwnBreakdown(names, totals, rows, txs) ==
    /\ Len(names) = Len(totals)
    /\ Range(names) = { OwnCategory(rows, t.category_id).name : t \in txs }
    /\ Len(names) = Cardinality(Range(names))
    /\ \A i \in 1 .. Len(names) :
          totals[i] = Sum_amount({ t \in txs :
                                     OwnCategory(rows, t.category_id).name = names[i] })

\* The label of the currency of the rows of a user.
OwnCurrency(rows) ==
    IF rows.profile = {} THEN "£"
    ELSE LET code == (CHOOSE p \in rows.profile : TRUE).currency
         IN  IF code \in DOMAIN _CURRENCY_SYMBOLS THEN _CURRENCY_SYMBOLS[code] ELSE code

\* The response is what the rows of the requesting user alone determine, for
\* the parameters of the request.
ShownFromOwnRows ==
    LET rows   == RowsOf(request.user)
        view   == request.view
        inside == OwnInWindow(rows, response.date_from, response.date_to)
    IN  /\ \A a \in Users : \A t \in RowsOf(a).transactions :
              \E c \in RowsOf(a).categories : c.id = t.category_id
        /\ (view = "category_list") =>
              response.categories = category_order_by(rows.categories)
        /\ (view = "transaction_list") =>
              LET GET  == request.GET
                  df   == _parse_yyyymmdd(GET.date_from)
                  shown == { t \in rows.transactions :
                               /\ (GET.type # "") => (t.transaction_type = GET.type)
                               /\ (GET.category # "") =>
                                     (PK_STRINGS[t.category_id] = GET.category)
                               /\ (df # NO_DATE) => (t.date >= df) }
              IN  /\ response.transactions = transaction_order_by(shown)
                  /\ response.total_income = Sum_amount(OwnOfType(shown, "Income"))
                  /\ response.total_expense = Sum_amount(OwnOfType(shown, "Expense"))
                  /\ response.all_categories = category_order_by(rows.categories)
                  /\ response.currency = OwnCurrency(rows)
        /\ (view = "report_pl") =>
              /\ response.income_total = Sum_amount(OwnOfType(inside, "Income"))
              /\ response.expense_total = Sum_amount(OwnOfType(inside, "Expense"))
              /\ OwnBreakdown([i \in DOMAIN response.income_by_cat |->
                                 response.income_by_cat[i].category__name],
                              [i \in DOMAIN response.income_by_cat |->
                                 response.income_by_cat[i].total],
                              rows, OwnOfType(inside, "Income"))
              /\ OwnBreakdown([i \in DOMAIN response.expense_by_cat |->
                                 response.expense_by_cat[i].category__name],
                              [i \in DOMAIN response.expense_by_cat |->
                                 response.expense_by_cat[i].total],
                              rows, OwnOfType(inside, "Expense"))
              /\ response.currency = OwnCurrency(rows)
        /\ (view = "report_pl_csv") =>
              LET qs == csv_order_by(inside)
              IN  /\ response.row_ids = [i \in 1 .. Len(qs) |-> qs[i].id]
                  /\ response.rows =
                        [i \in 1 .. Len(qs) |->
                           [Date     |-> format_date(qs[i].date),
                            Type     |-> qs[i].transaction_type,
                            Category |-> OwnCategory(rows, qs[i].category_id).name,
                            Amount   |-> format_2f(qs[i].amount)]]
        /\ (view = "dashboard") =>
              LET anchors == response.line_anchors
                  of(i, ty) == Sum_amount({ t \in OwnOfType(inside, ty) :
                                             AnchorOfBucket(t.date, response.bucket)
                                               = anchors[i] })
              IN  /\ response.kpi_income = Sum_amount(OwnOfType(inside, "Income"))
                  /\ response.kpi_expense = Sum_amount(OwnOfType(inside, "Expense"))
                  /\ \A i \in 1 .. Len(anchors) :
                        /\ response.line_income[i] = of(i, "Income")
                        /\ response.line_expense[i] = of(i, "Expense")
                  /\ OwnBreakdown(response.pie_labels, response.pie_values,
                                  rows, OwnOfType(inside, "Expense"))
                  /\ response.currency = OwnCurrency(rows)

\* C23: every list, report, export and dashboard shown to a user is what the
\* categories, transactions and profile of that user alone determine;
\* whatever a user does, the rows of every other user stay as they were, so
\* what the others are shown stays as it was; and a request to edit or to
\* delete a row of another user is answered as not found.
C23_UserIsolation ==
    /\ []ShownFromOwnRows
    /\ [][ (request = NoRequest /\ request' # NoRequest) =>
            /\ \A a \in Users \ {request'.user} : RowsOf(a)' = RowsOf(a)
            /\ TargetsRowOfOther(request') => response'.status = "not_found" ]_vars

\* The second user has asked to delete a transaction of the first, while
\* both have a transaction, and was answered that there is none.
C23_Witness ==
    /\ request.view = "transaction_delete"
    /\ request.user = "u2"
    /\ response.status = "not_found"
    /\ \E t \in transactions : t.id = request.pk /\ t.user = "u1"
    /\ \E t \in transactions : t.user = "u2"

(***************************************************************************)
(* Properties of the requests handled at the same time                     *)
(***************************************************************************)

\* C25: however the steps of a category deletion and of the creations and
\* edits of transactions of the same user interleave, every stored transaction
\* references a category that is stored; and the write of a deletion that
\* finds a transaction referencing the category removes nothing.
C25_NoDanglingCategory ==
    /\ [](\A t \in transactions : \E c \in categories : c.id = t.category_id)
    /\ [][ ( /\ request["category_delete"].pc = "delete"
             /\ request'["category_delete"].pc = "done"
             /\ \E t \in transactions : t.category_id = request["category_delete"].pk )
           => ( /\ categories' = categories
                /\ response'["category_delete"].status # "deleted" ) ]_vars

\* A deletion whose collector found no transaction and whose write was
\* rejected: the transaction that references the category was written between
\* the two.
C25_Witness ==
    /\ request["category_delete"].pc = "done"
    /\ response["category_delete"].status = "integrity_error"
    /\ \E c \in categories : c.id = request["category_delete"].pk
    /\ \E t \in transactions : t.category_id = request["category_delete"].pk

====
